---------------------------- MODULE Spec2Model ----------------------------
(***************************************************************************)
(* A model of tsndef, the NDEF (NFC Data Exchange Format) codec:           *)
(*   - the encoder  NDEFMessage.toBytes -> constructBytes                  *)
(*   - the decoder  parseNDEFMessage / safeParseNDEFMessage                *)
(*   - the record factories and the records the decoder builds.            *)
(* Byte buffers (Uint8Array) are sequences of 0..255; JavaScript strings   *)
(* are sequences of code points.  A JavaScript array index i is the        *)
(* sequence index i+1.                                                     *)
(***************************************************************************)
EXTENDS Integers, Sequences, FiniteSets, TLC

VARIABLES
    pc,        \* where the caller is: "idle", "ready", "parsing", "done", "read", "called"
    origin,    \* where the buffer came from: "none", "toBytes", "raw", "stream", "truncated",
               \* "padded"
    heap,      \* the arrays there are: heap[ref] is the content of the array ref
    msgs,      \* the NDEFMessage instances: msgs[m] is the array the field `records` of
               \* message m refers to
    arr,       \* the array the caller made itself and keeps in a variable, 0 when none
    ret,       \* the method called last on a message, and what it returned
    encoded,   \* outcome of message.toBytes()
    bytes,     \* the buffer handed to the decoder
    sent,      \* the wire records a generated stream was assembled from
    call,      \* a direct call of a factory or of the record encoder, and what it gave
    tlv,       \* outcome of a direct call of validateAndStripTLV(bytes)
    caller,    \* "parse" (parseNDEFMessage) or "safe" (safeParseNDEFMessage)
    data,      \* parseNDEFMessage: the TLV value being decoded
    offset,    \* parseNDEFMessage: the cursor
    out,       \* parseNDEFMessage: the local array `records`
    parsed,    \* outcome of parseNDEFMessage
    safe,      \* outcome of safeParseNDEFMessage
    reads,     \* what the accessors of the decoded records gave, record by record
    tasks      \* the calls of toBytes() that were not awaited at once: tasks[t] is call t

vars == <<pc, origin, heap, msgs, arr, ret, encoded, bytes, sent, call, tlv, caller, data, offset, out, parsed, safe,
          reads, tasks>>

---------------------------------------------------------------------------
(* JavaScript values *)

Byte == 0..255

\* the value of a read outside a typed array, data[i] with i out of range
Undefined == -1

\* Number.NaN; the cursor of the decoder takes no value below 3 - 2^31 otherwise
NaN == -2147483647 - 1

Max(a, b) == IF a >= b THEN a ELSE b
Min(a, b) == IF a <= b THEN a ELSE b

\* data[i] of a Uint8Array
At(d, i) == IF i # NaN /\ i >= 0 /\ i < Len(d) THEN d[i + 1] ELSE Undefined

\* ToInt32 of an operand of a bitwise operator: undefined becomes 0
ToInt32(b) == IF b = Undefined THEN 0 ELSE b

\* ToNumber of a value read from a typed array: undefined becomes NaN
ToNumber(b) == IF b = Undefined THEN NaN ELSE b

\* a + b, either of which may be NaN
Plus(a, b) == IF a = NaN \/ b = NaN THEN NaN ELSE a + b

\* a + b > c, for a and b as in Plus (a comparison with NaN is false)
PlusExceeds(a, b, c) == IF a = NaN \/ b = NaN THEN FALSE ELSE b > c - a

\* a + n for a signed 32-bit number n (never NaN; n may be -2^31)
PlusInt32(a, n) == IF a = NaN THEN NaN ELSE a + n

\* a + n > c for a signed 32-bit number n, evaluated without leaving the 32-bit range
PlusInt32Exceeds(a, n, c) == IF a = NaN THEN FALSE ELSE n > c - a

\* ToIntegerOrInfinity followed by the relative-index clamping of slice()
RelativeIndex(i, len) ==
    IF i = NaN THEN 0
    ELSE IF i < 0 THEN Max(len + i, 0) ELSE Min(i, len)

\* TypedArray.prototype.slice(start, end)
Slice(d, start, end) ==
    LET from == RelativeIndex(start, Len(d))
        to   == RelativeIndex(end, Len(d))
    IN  IF to > from THEN SubSeq(d, from + 1, to) ELSE <<>>

\* a thrown Error: its message text and the numbers interpolated into it
Error(msg, args) == [message |-> msg, args |-> args]

Return(v) == [ok |-> TRUE, value |-> v, error |-> Error("", <<>>)]
Throw(e)  == [ok |-> FALSE, value |-> <<>>, error |-> e]

---------------------------------------------------------------------------
(* src/parse/index.ts: the TLV envelope *)

RECURSIVE LeadingZeros(_, _)
LeadingZeros(d, start) ==
    IF start < Len(d) /\ At(d, start) = 0 THEN LeadingZeros(d, start + 1) ELSE start

RECURSIVE TrailingZeros(_, _, _)
TrailingZeros(d, start, end) ==
    IF end > start /\ At(d, end - 1) = 0 THEN TrailingZeros(d, start, end - 1) ELSE end

\* a strip that leaves the zeros after the last non-zero byte in place
stripLeadingZeros(d) ==
    Slice(d, LeadingZeros(d, 0), Len(d))

stripLeadingTrailingZeros(d) ==
    LET start == LeadingZeros(d, 0)
        end   == TrailingZeros(d, start, Len(d))
    IN  Slice(d, start, end)

TLVMalformed(what) == Error("TLV structure is malformed: " \o what, <<>>)

\* the value slice of a TLV whose checks have passed
TLVValue(d, headerSize, length) ==
    IF length = 0 THEN Return(<<>>)
    ELSE IF Len(d) = 4 THEN Throw(TLVMalformed("length field must be 1 or 3 bytes"))
    ELSE Return(Slice(d, headerSize, Len(d) - 1))

\* the length check shared by both length formats
TLVCheckLength(d, headerSize, length) ==
    LET expectedTotalLength == headerSize + length + 1
    IN  IF Len(d) # expectedTotalLength
        THEN Throw(Error("TLV structure is malformed: expected total length, got",
                         <<expectedTotalLength, Len(d)>>))
        ELSE TLVValue(d, headerSize, length)

\* a validation that looks at the terminator before it looks at the tag
validateAndStripTLVTerminatorFirst(d) ==
    IF Len(d) < 3 THEN Throw(TLVMalformed("not enough data"))
    ELSE IF At(d, Len(d) - 1) # 254 THEN Throw(TLVMalformed("last byte is not 0xFE"))
    ELSE IF At(d, 0) # 3 THEN Throw(TLVMalformed("first byte is not 0x03"))
    ELSE IF At(d, 1) < 255 THEN TLVCheckLength(d, 2, At(d, 1))
    ELSE IF Len(d) < 5
    THEN Throw(TLVMalformed("long length format requires at least 5 bytes"))
    ELSE TLVCheckLength(d, 4, At(d, 2) * 256 + At(d, 3))

\* a validation that wants a value of at least one byte
validateAndStripTLVNoEmptyValue(d) ==
    IF Len(d) < 4 THEN Throw(TLVMalformed("not enough data"))
    ELSE IF At(d, 0) # 3 THEN Throw(TLVMalformed("first byte is not 0x03"))
    ELSE IF At(d, Len(d) - 1) # 254 THEN Throw(TLVMalformed("last byte is not 0xFE"))
    ELSE IF At(d, 1) < 255 THEN TLVCheckLength(d, 2, At(d, 1))
    ELSE IF Len(d) < 6
    THEN Throw(TLVMalformed("long length format requires at least 5 bytes"))
    ELSE TLVCheckLength(d, 4, At(d, 2) * 256 + At(d, 3))

validateAndStripTLV(d) ==
    IF Len(d) < 3 THEN Throw(TLVMalformed("not enough data"))
    ELSE IF At(d, 0) # 3 THEN Throw(TLVMalformed("first byte is not 0x03"))
    ELSE IF At(d, Len(d) - 1) # 254 THEN Throw(TLVMalformed("last byte is not 0xFE"))
    ELSE IF At(d, 1) < 255 THEN TLVCheckLength(d, 2, At(d, 1))
    ELSE IF At(d, 1) = 255
         THEN IF Len(d) < 5
              THEN Throw(TLVMalformed("long length format requires at least 5 bytes"))
              ELSE TLVCheckLength(d, 4, At(d, 2) * 256 + At(d, 3))
    ELSE Throw(TLVMalformed("invalid length field format"))

---------------------------------------------------------------------------
(* TextEncoder / TextDecoder, as the records and the decoder use them:     *)
(* new TextDecoder().decode(b) is the UTF-8 decoder with replacement       *)
(* (never throws) that drops a leading byte order mark;                    *)
(* new TextEncoder().encode(s) writes UTF-8 and turns a lone surrogate     *)
(* into U+FFFD.                                                            *)

Replacement == 65533   \* U+FFFD
ByteOrderMark == 65279 \* U+FEFF

\* the decoder's state after reading the lead byte b
Utf8Lead(b) ==
    IF b <= 127 THEN [emit |-> <<b>>, cp |-> 0, needed |-> 0, lower |-> 128, upper |-> 191]
    ELSE IF b >= 194 /\ b <= 223
         THEN [emit |-> <<>>, cp |-> b - 192, needed |-> 1, lower |-> 128, upper |-> 191]
    ELSE IF b >= 224 /\ b <= 239
         THEN [emit |-> <<>>, cp |-> b - 224, needed |-> 2,
               lower |-> IF b = 224 THEN 160 ELSE 128,
               upper |-> IF b = 237 THEN 159 ELSE 191]
    ELSE IF b >= 240 /\ b <= 244
         THEN [emit |-> <<>>, cp |-> b - 240, needed |-> 3,
               lower |-> IF b = 240 THEN 144 ELSE 128,
               upper |-> IF b = 244 THEN 143 ELSE 191]
    ELSE [emit |-> <<Replacement>>, cp |-> 0, needed |-> 0, lower |-> 128, upper |-> 191]

RECURSIVE Utf8Decode(_, _, _, _, _, _, _)
Utf8Decode(b, i, cp, needed, lower, upper, acc) ==
    IF i > Len(b) THEN (IF needed # 0 THEN Append(acc, Replacement) ELSE acc)
    ELSE IF needed = 0
         THEN LET st == Utf8Lead(b[i])
              IN  Utf8Decode(b, i + 1, st.cp, st.needed, st.lower, st.upper, acc \o st.emit)
    ELSE IF b[i] < lower \/ b[i] > upper
         THEN Utf8Decode(b, i, 0, 0, 128, 191, Append(acc, Replacement))
    ELSE IF needed = 1
         THEN Utf8Decode(b, i + 1, 0, 0, 128, 191, Append(acc, cp * 64 + (b[i] % 64)))
    ELSE Utf8Decode(b, i + 1, cp * 64 + (b[i] % 64), needed - 1, 128, 191, acc)

TextDecode(b) ==
    LET s == Utf8Decode(b, 1, 0, 0, 128, 191, <<>>)
    IN  IF Len(s) > 0 /\ s[1] = ByteOrderMark /\ Len(b) >= 3 /\ SubSeq(b, 1, 3) = <<239, 187, 191>>
        THEN Tail(s) ELSE s

Utf8Bytes(c) ==
    LET cp == IF c >= 55296 /\ c <= 57343 THEN Replacement ELSE c
    IN  IF cp <= 127 THEN <<cp>>
        ELSE IF cp <= 2047 THEN <<192 + (cp \div 64), 128 + (cp % 64)>>
        ELSE IF cp <= 65535
             THEN <<224 + (cp \div 4096), 128 + ((cp \div 64) % 64), 128 + (cp % 64)>>
        ELSE <<240 + (cp \div 262144), 128 + ((cp \div 4096) % 64),
               128 + ((cp \div 64) % 64), 128 + (cp % 64)>>

RECURSIVE TextEncode(_)
TextEncode(s) ==
    IF s = <<>> THEN <<>>
    ELSE IF Len(s) = 1 THEN Utf8Bytes(s[1])
    ELSE TextEncode(SubSeq(s, 1, Len(s) \div 2)) \o TextEncode(SubSeq(s, Len(s) \div 2 + 1, Len(s)))

---------------------------------------------------------------------------
(* JSON.parse / JSON.stringify on the texts the model feeds them: texts    *)
(* over quotes, braces, brackets, colon, comma, white space, digits,       *)
(* letters and the literals; numbers are decimal integers.                 *)

JValue(t, n, str, keys, items) == [t |-> t, n |-> n, s |-> str, keys |-> keys, items |-> items]
JNull == JValue("null", 0, <<>>, <<>>, <<>>)
JBool(b) == JValue("bool", IF b THEN 1 ELSE 0, <<>>, <<>>, <<>>)
JNum(n) == JValue("num", n, <<>>, <<>>, <<>>)
JStr(str) == JValue("str", 0, str, <<>>, <<>>)
JArr(items) == JValue("arr", 0, <<>>, <<>>, items)
JObj(keys, items) == JValue("obj", 0, <<>>, keys, items)

JOk(v, next) == [ok |-> TRUE, v |-> v, next |-> next]
JFail == [ok |-> FALSE, v |-> JNull, next |-> 0]

Ch(s, i) == IF i >= 1 /\ i <= Len(s) THEN s[i] ELSE Undefined

RECURSIVE SkipWs(_, _)
SkipWs(s, i) == IF Ch(s, i) \in {32, 9, 10, 13} THEN SkipWs(s, i + 1) ELSE i

\* s[i..] starts with the word w
StartsWithAt(s, i, w) == i + Len(w) - 1 <= Len(s) /\ SubSeq(s, i, i + Len(w) - 1) = w

\* the characters of a string token after its opening quote
RECURSIVE JParseChars(_, _, _)
JParseChars(s, i, acc) ==
    IF Ch(s, i) = Undefined \/ Ch(s, i) < 32 THEN JFail
    ELSE IF Ch(s, i) = 34 THEN JOk(JStr(acc), i + 1)
    ELSE IF Ch(s, i) = 92
         THEN IF Ch(s, i + 1) \in {34, 92, 47}
              THEN JParseChars(s, i + 2, Append(acc, Ch(s, i + 1)))
              ELSE JFail
    ELSE JParseChars(s, i + 1, Append(acc, Ch(s, i)))

RECURSIVE JParseDigits(_, _, _)
JParseDigits(s, i, n) ==
    IF Ch(s, i) \in 48..57 THEN JParseDigits(s, i + 1, n * 10 + (Ch(s, i) - 48)) ELSE JOk(JNum(n), i)

\* -? ( 0 | [1-9][0-9]* )
JParseNumber(s, i) ==
    LET neg == Ch(s, i) = 45
        j   == IF neg THEN i + 1 ELSE i
        r   == IF Ch(s, j) = 48 THEN JOk(JNum(0), j + 1)
               ELSE IF Ch(s, j) \in 49..57 THEN JParseDigits(s, j, 0)
               ELSE JFail
    IN  IF r.ok /\ neg THEN JOk(JNum(0 - r.v.n), r.next) ELSE r

\* an object keeps one member per key: a repeated key overwrites the value
RECURSIVE JPut(_, _, _, _)
JPut(keys, items, k, v) ==
    IF keys = <<>> THEN [keys |-> <<k>>, items |-> <<v>>]
    ELSE IF Head(keys) = k THEN [keys |-> keys, items |-> <<v>> \o Tail(items)]
    ELSE LET rest == JPut(Tail(keys), Tail(items), k, v)
         IN  [keys |-> <<Head(keys)>> \o rest.keys, items |-> <<Head(items)>> \o rest.items]

RECURSIVE JParseValue(_, _), JParseElements(_, _, _), JParseMembers(_, _, _, _)
JParseValue(s, i0) ==
    LET i == SkipWs(s, i0)
        c == Ch(s, i)
    IN  IF c = 123 THEN
            (IF Ch(s, SkipWs(s, i + 1)) = 125 THEN JOk(JObj(<<>>, <<>>), SkipWs(s, i + 1) + 1)
             ELSE JParseMembers(s, i + 1, <<>>, <<>>))
        ELSE IF c = 91 THEN
            (IF Ch(s, SkipWs(s, i + 1)) = 93 THEN JOk(JArr(<<>>), SkipWs(s, i + 1) + 1)
             ELSE JParseElements(s, i + 1, <<>>))
        ELSE IF c = 34 THEN JParseChars(s, i + 1, <<>>)
        ELSE IF c = 45 \/ c \in 48..57 THEN JParseNumber(s, i)
        ELSE IF StartsWithAt(s, i, <<116, 114, 117, 101>>) THEN JOk(JBool(TRUE), i + 4)
        ELSE IF StartsWithAt(s, i, <<102, 97, 108, 115, 101>>) THEN JOk(JBool(FALSE), i + 5)
        ELSE IF StartsWithAt(s, i, <<110, 117, 108, 108>>) THEN JOk(JNull, i + 4)
        ELSE JFail

JParseElements(s, i, acc) ==
    LET r == JParseValue(s, i)
        j == SkipWs(s, r.next)
    IN  IF ~r.ok THEN JFail
        ELSE IF Ch(s, j) = 44 THEN JParseElements(s, j + 1, Append(acc, r.v))
        ELSE IF Ch(s, j) = 93 THEN JOk(JArr(Append(acc, r.v)), j + 1)
        ELSE JFail

JParseMembers(s, i0, keys, items) ==
    LET i == SkipWs(s, i0)
        k == IF Ch(s, i) = 34 THEN JParseChars(s, i + 1, <<>>) ELSE JFail
        c == SkipWs(s, k.next)
        r == IF k.ok /\ Ch(s, c) = 58 THEN JParseValue(s, c + 1) ELSE JFail
        j == SkipWs(s, r.next)
        m == JPut(keys, items, k.v.s, r.v)
    IN  IF ~r.ok THEN JFail
        ELSE IF Ch(s, j) = 44 THEN JParseMembers(s, j + 1, m.keys, m.items)
        ELSE IF Ch(s, j) = 125 THEN JOk(JObj(m.keys, m.items), j + 1)
        ELSE JFail

\* JSON.parse(text): the value, or a thrown SyntaxError
JSONparse(text) ==
    LET r == JParseValue(text, 1)
    IN  IF r.ok /\ SkipWs(text, r.next) = Len(text) + 1
        THEN Return(r.v)
        ELSE Throw(Error("SyntaxError: text is not valid JSON", <<>>))

RECURSIVE JQuote(_)
JQuote(str) ==
    IF str = <<>> THEN <<>>
    ELSE (IF Head(str) \in {34, 92} THEN <<92, Head(str)>> ELSE <<Head(str)>>) \o JQuote(Tail(str))

RECURSIVE JDigits(_)
JDigits(n) == IF n < 10 THEN <<48 + n>> ELSE JDigits(n \div 10) \o <<48 + (n % 10)>>

RECURSIVE JSONstringify(_), JJoin(_, _, _)
JSONstringify(v) ==
    IF v.t = "null" THEN <<110, 117, 108, 108>>
    ELSE IF v.t = "bool" THEN (IF v.n = 1 THEN <<116, 114, 117, 101>> ELSE <<102, 97, 108, 115, 101>>)
    ELSE IF v.t = "num" THEN (IF v.n < 0 THEN <<45>> \o JDigits(0 - v.n) ELSE JDigits(v.n))
    ELSE IF v.t = "str" THEN <<34>> \o JQuote(v.s) \o <<34>>
    ELSE IF v.t = "arr" THEN <<91>> \o JJoin(<<>>, v.items, 1) \o <<93>>
    ELSE <<123>> \o JJoin(v.keys, v.items, 1) \o <<125>>

\* the members (with keys) or elements (keys = <<>>) from index i on, comma separated
JJoin(keys, items, i) ==
    IF i > Len(items) THEN <<>>
    ELSE (IF keys = <<>> THEN <<>> ELSE <<34>> \o JQuote(keys[i]) \o <<34, 58>>)
         \o JSONstringify(items[i])
         \o (IF i < Len(items) THEN <<44>> ELSE <<>>)
         \o JJoin(keys, items, i + 1)

---------------------------------------------------------------------------
(* src/TNF.ts *)

TNFNames == <<"empty", "well-known", "media", "absolute-uri",
              "forum-external", "unknown", "unchanged", "reserved">>

\* reverseTnfLookup: code -> name
TNFCodeLookup(tnfCode) == TNFNames[tnfCode + 1]

\* tnfLookup: name -> code
TNFLookup(tnf) == CHOOSE c \in 0..7 : TNFNames[c + 1] = tnf

---------------------------------------------------------------------------
(* record types, as strings of code points *)

TypeU == <<85>>  \* 'U'
TypeT == <<84>>  \* 'T'
TypeApplicationJson == <<97, 112, 112, 108, 105, 99, 97, 116, 105, 111, 110, 47, 106, 115, 111, 110>>  \* 'application/json'
TypeTextPlain == <<116, 101, 120, 116, 47, 112, 108, 97, 105, 110>>  \* 'text/plain'
TypeTextHtml == <<116, 101, 120, 116, 47, 104, 116, 109, 108>>  \* 'text/html'
TypeImagePng == <<105, 109, 97, 103, 101, 47, 112, 110, 103>>  \* 'image/png'
TypeImageJpeg == <<105, 109, 97, 103, 101, 47, 106, 112, 101, 103>>  \* 'image/jpeg'
TypeVideoMp4 == <<118, 105, 100, 101, 111, 47, 109, 112, 52>>  \* 'video/mp4'
TypeAudioMpeg == <<97, 117, 100, 105, 111, 47, 109, 112, 101, 103>>  \* 'audio/mpeg'
TypeApplicationUnknown == <<97, 112, 112, 108, 105, 99, 97, 116, 105, 111, 110, 47, 117, 110, 107, 110, 111, 119, 110>>  \* 'application/unknown'

---------------------------------------------------------------------------
(* src/utils/record.ts: the URI prefix table *)

\* prefixMappings of reconstructURIFromPrefix, entry i + 1 is the prefix of code i
prefixMappings ==
    <<
       <<>>,  \* 0x00 ''
       <<104, 116, 116, 112, 58, 47, 47, 119, 119, 119, 46>>,  \* 0x01 'http://www.'
       <<104, 116, 116, 112, 115, 58, 47, 47, 119, 119, 119, 46>>,  \* 0x02 'https://www.'
       <<104, 116, 116, 112, 58, 47, 47>>,  \* 0x03 'http://'
       <<104, 116, 116, 112, 115, 58, 47, 47>>,  \* 0x04 'https://'
       <<116, 101, 108, 58>>,  \* 0x05 'tel:'
       <<109, 97, 105, 108, 116, 111, 58>>,  \* 0x06 'mailto:'
       <<102, 116, 112, 58, 47, 47, 97, 110, 111, 110, 121, 109, 111, 117, 115, 58, 97, 110, 111, 110, 121, 109, 111, 117, 115, 64>>,  \* 0x07 'ftp://anonymous:anonymous@'
       <<102, 116, 112, 58, 47, 47, 102, 116, 112, 46>>,  \* 0x08 'ftp://ftp.'
       <<102, 116, 112, 115, 58, 47, 47>>,  \* 0x09 'ftps://'
       <<115, 102, 116, 112, 58, 47, 47>>,  \* 0x0A 'sftp://'
       <<115, 109, 98, 58, 47, 47>>,  \* 0x0B 'smb://'
       <<110, 102, 115, 58, 47, 47>>,  \* 0x0C 'nfs://'
       <<102, 116, 112, 58, 47, 47>>,  \* 0x0D 'ftp://'
       <<100, 97, 118, 58, 47, 47>>,  \* 0x0E 'dav://'
       <<110, 101, 119, 115, 58>>,  \* 0x0F 'news:'
       <<116, 101, 108, 110, 101, 116, 58, 47, 47>>,  \* 0x10 'telnet://'
       <<105, 109, 97, 112, 58>>,  \* 0x11 'imap:'
       <<114, 116, 115, 112, 58, 47, 47>>,  \* 0x12 'rtsp://'
       <<117, 114, 110, 58>>,  \* 0x13 'urn:'
       <<112, 111, 112, 58>>,  \* 0x14 'pop:'
       <<115, 105, 112, 58>>,  \* 0x15 'sip:'
       <<115, 105, 112, 115, 58>>,  \* 0x16 'sips:'
       <<116, 102, 116, 112, 58>>,  \* 0x17 'tftp:'
       <<98, 116, 115, 112, 112, 58, 47, 47>>,  \* 0x18 'btspp://'
       <<98, 116, 108, 50, 99, 97, 112, 58, 47, 47>>,  \* 0x19 'btl2cap://'
       <<98, 116, 103, 111, 101, 112, 58, 47, 47>>,  \* 0x1A 'btgoep://'
       <<116, 99, 112, 111, 98, 101, 120, 58, 47, 47>>,  \* 0x1B 'tcpobex://'
       <<105, 114, 100, 97, 111, 98, 101, 120, 58, 47, 47>>,  \* 0x1C 'irdaobex://'
       <<102, 105, 108, 101, 58, 47, 47>>,  \* 0x1D 'file://'
       <<117, 114, 110, 58, 101, 112, 99, 58, 105, 100, 58>>,  \* 0x1E 'urn:epc:id:'
       <<117, 114, 110, 58, 101, 112, 99, 58, 116, 97, 103, 58>>,  \* 0x1F 'urn:epc:tag:'
       <<117, 114, 110, 58, 101, 112, 99, 58, 112, 97, 116, 58>>,  \* 0x20 'urn:epc:pat:'
       <<117, 114, 110, 58, 101, 112, 99, 58, 114, 97, 119, 58>>,  \* 0x21 'urn:epc:raw:'
       <<117, 114, 110, 58, 101, 112, 99, 58>>,  \* 0x22 'urn:epc:'
       <<117, 114, 110, 58, 110, 102, 99, 58>>   \* 0x23 'urn:nfc:'
    >>

\* the codes in the order of the `case` labels of getWellKnownURIPrefixMapping
URIPrefixCases ==
    <<1, 2, 3, 4, 5, 6, 7, 8, 9, 10, 11, 12, 13, 14, 15, 16, 17, 18, 19, 20,
      21, 22, 23, 24, 25, 26, 27, 28, 29, 30, 31, 32, 33, 34, 35>>

StartsWith(str, prefix) == Len(prefix) <= Len(str) /\ SubSeq(str, 1, Len(prefix)) = prefix

\* the scheme of a URI, "" when the text does not start with ALPHA *( ALPHA / DIGIT / + - . ) ":"
IsAlpha(c) == c \in 65..90 \/ c \in 97..122
RECURSIVE SchemeEnd(_, _)
SchemeEnd(str, i) ==
    IF i > Len(str) THEN 0
    ELSE IF str[i] = 58 THEN i
    ELSE IF IsAlpha(str[i]) \/ str[i] \in 48..57 \/ str[i] \in {43, 45, 46} THEN SchemeEnd(str, i + 1)
    ELSE 0

RECURSIVE SkipSlashes(_, _)
SkipSlashes(str, i) == IF Ch(str, i) \in {47, 92} THEN SkipSlashes(str, i + 1) ELSE i

\* URL.canParse(URI): a scheme is required; a special scheme requires a host
URLcanParse(str) ==
    LET e == IF Len(str) > 0 /\ IsAlpha(str[1]) THEN SchemeEnd(str, 2) ELSE 0
        scheme == SubSeq(str, 1, e - 1)
        special == scheme \in {<<104, 116, 116, 112>>, <<104, 116, 116, 112, 115>>,
                               <<102, 116, 112>>, <<119, 115>>, <<119, 115, 115>>}
        h == SkipSlashes(str, e + 1)
    IN  /\ e > 0
        /\ special => (Ch(str, h) # Undefined /\ Ch(str, h) \notin {32, 35, 47, 58, 63, 64, 92})

\* the first `case` from index i on whose prefix the URI starts with; 0 is the default branch
RECURSIVE FirstMatchingCase(_, _)
FirstMatchingCase(URI, i) ==
    IF i > Len(URIPrefixCases) THEN 0
    ELSE IF StartsWith(URI, prefixMappings[URIPrefixCases[i] + 1]) THEN URIPrefixCases[i]
    ELSE FirstMatchingCase(URI, i + 1)

getWellKnownURIPrefixMapping(URI) ==
    IF ~URLcanParse(URI) THEN Throw(Error("Provided URI is not a valid URI", <<>>))
    ELSE LET code == FirstMatchingCase(URI, 1)
         IN  Return([URIIdentifierPrefix |-> code,
                     URISuffix |-> SubSeq(URI, Len(prefixMappings[code + 1]) + 1, Len(URI))])

\* a table that ends before 0x23
reconstructURIFromPrefixWithoutLast(prefixCode, suffix) ==
    IF prefixCode \notin 0..(Len(prefixMappings) - 2)
    THEN Throw(Error("Invalid prefix code: ", <<prefixCode>>))
    ELSE Return(prefixMappings[prefixCode + 1] \o suffix)

reconstructURIFromPrefix(prefixCode, suffix) ==
    IF prefixCode \notin 0..(Len(prefixMappings) - 1)
    THEN Throw(Error("Invalid prefix code: ", <<prefixCode>>))
    ELSE Return(prefixMappings[prefixCode + 1] \o suffix)

---------------------------------------------------------------------------
(* Records (BaseNDEFRecord).  The closures of a record are modelled by     *)
(* the name of the function that built them (ctor) and by what they        *)
(* captured: value is NDEFInfo.payload or fullURI, raw is rawPayload,      *)
(* prefix and suffix are URIIdentifierPrefix and URISuffix.                *)
(* An optional id is <<>> (undefined) or <<string>>.                       *)

StrVal(str)  == [k |-> "string", s |-> str, j |-> JNull]
BytesVal(b)  == [k |-> "bytes", s |-> b, j |-> JNull]
JsonVal(j)   == [k |-> "json", s |-> <<>>, j |-> j]
UndefinedVal == [k |-> "undefined", s |-> <<>>, j |-> JNull]

NoId == <<>>
SomeId(str) == <<str>>

Record(ctor, tnf, type, id, isIdentified, value, raw, prefix, suffix) ==
    [ctor |-> ctor, tnf |-> tnf, type |-> type, id |-> id, isIdentified |-> isIdentified,
     value |-> value, raw |-> raw, prefix |-> prefix, suffix |-> suffix]

FactoryCtors == {"createNDEFRecordWellKnownURI", "createNDEFRecordMediaApplicationJson",
                 "createNDEFRecordMediaTextPlain", "createNDEFRecordMediaTextHTML",
                 "createNDEFRecordMediaImagePNG", "createNDEFRecordMediaImageJPEG",
                 "createNDEFRecordMediaVideoMP4", "createNDEFRecordMediaAudioMPEG"}

(* src/records/wellKnown.ts and src/records/media.ts: the factories *)

createNDEFRecordWellKnownURI(payload, id) ==
    LET m == getWellKnownURIPrefixMapping(payload)
    IN  IF ~m.ok THEN Throw(m.error)
        ELSE Return(Record("createNDEFRecordWellKnownURI", "well-known", TypeU, id, TRUE,
                           StrVal(payload), <<>>, m.value.URIIdentifierPrefix, m.value.URISuffix))

createNDEFRecordMediaApplicationJson(payload, id) ==
    Record("createNDEFRecordMediaApplicationJson", "media", TypeApplicationJson, id, TRUE,
           JsonVal(payload), <<>>, 0, <<>>)

createNDEFRecordMediaTextPlain(payload, id) ==
    Record("createNDEFRecordMediaTextPlain", "media", TypeTextPlain, id, TRUE,
           StrVal(payload), <<>>, 0, <<>>)

createNDEFRecordMediaTextHTML(payload, id) ==
    Record("createNDEFRecordMediaTextHTML", "media", TypeTextHtml, id, TRUE,
           StrVal(payload), <<>>, 0, <<>>)

createNDEFRecordMediaImagePNG(payload, id) ==
    Record("createNDEFRecordMediaImagePNG", "media", TypeImagePng, id, TRUE,
           BytesVal(payload), <<>>, 0, <<>>)

createNDEFRecordMediaImageJPEG(payload, id) ==
    Record("createNDEFRecordMediaImageJPEG", "media", TypeImageJpeg, id, TRUE,
           BytesVal(payload), <<>>, 0, <<>>)

createNDEFRecordMediaVideoMP4(payload, id) ==
    Record("createNDEFRecordMediaVideoMP4", "media", TypeVideoMp4, id, TRUE,
           BytesVal(payload), <<>>, 0, <<>>)

createNDEFRecordMediaAudioMPEG(payload, id) ==
    Record("createNDEFRecordMediaAudioMPEG", "media", TypeAudioMpeg, id, TRUE,
           BytesVal(payload), <<>>, 0, <<>>)

(* src/records/wellKnownFromBytes.ts, src/records/mediaFromBytes.ts,       *)
(* src/utils/record.ts: the records the decoder builds                     *)

createNDEFRecordWellKnownURIFromBytes(rawPayload, id) ==
    IF Len(rawPayload) = 0 THEN Throw(Error("URI record payload cannot be empty", <<>>))
    ELSE LET fullURI == reconstructURIFromPrefix(At(rawPayload, 0),
                                                 TextDecode(Slice(rawPayload, 1, Len(rawPayload))))
         IN  IF ~fullURI.ok THEN Throw(fullURI.error)
             ELSE Return(Record("createNDEFRecordWellKnownURIFromBytes", "well-known", TypeU, id,
                                TRUE, StrVal(fullURI.value), rawPayload, 0, <<>>))

\* the seven createNDEFRecordMedia...FromBytes functions share this shape
MediaFromBytes(ctor, type, rawPayload, id) ==
    Record(ctor, "media", type, id, TRUE, UndefinedVal, rawPayload, 0, <<>>)

createNDEFRecordMediaApplicationJsonFromBytes(rawPayload, id) ==
    MediaFromBytes("createNDEFRecordMediaApplicationJsonFromBytes", TypeApplicationJson, rawPayload, id)
createNDEFRecordMediaTextPlainFromBytes(rawPayload, id) ==
    MediaFromBytes("createNDEFRecordMediaTextPlainFromBytes", TypeTextPlain, rawPayload, id)
createNDEFRecordMediaTextHTMLFromBytes(rawPayload, id) ==
    MediaFromBytes("createNDEFRecordMediaTextHTMLFromBytes", TypeTextHtml, rawPayload, id)
createNDEFRecordMediaImagePNGFromBytes(rawPayload, id) ==
    MediaFromBytes("createNDEFRecordMediaImagePNGFromBytes", TypeImagePng, rawPayload, id)
createNDEFRecordMediaImageJPEGFromBytes(rawPayload, id) ==
    MediaFromBytes("createNDEFRecordMediaImageJPEGFromBytes", TypeImageJpeg, rawPayload, id)
createNDEFRecordMediaVideoMP4FromBytes(rawPayload, id) ==
    MediaFromBytes("createNDEFRecordMediaVideoMP4FromBytes", TypeVideoMp4, rawPayload, id)
createNDEFRecordMediaAudioMPEGFromBytes(rawPayload, id) ==
    MediaFromBytes("createNDEFRecordMediaAudioMPEGFromBytes", TypeAudioMpeg, rawPayload, id)

createUnidentifiedRecord(tnf, type, rawPayload, id) ==
    Record("createUnidentifiedRecord", tnf, type, id, FALSE, UndefinedVal, rawPayload, 0, <<>>)

(* the accessors of a record *)

\* record.payload(): the value, or what it throws
payload(r) ==
    IF r.ctor \in FactoryCtors \/ r.ctor = "createNDEFRecordWellKnownURIFromBytes"
    THEN Return(r.value)
    ELSE IF r.ctor = "createNDEFRecordMediaApplicationJsonFromBytes"
    THEN LET parsedPayload == JSONparse(TextDecode(r.raw))
         IN  IF parsedPayload.ok THEN Return(JsonVal(parsedPayload.value))
             ELSE Throw(parsedPayload.error)
    ELSE IF r.ctor \in {"createNDEFRecordMediaTextPlainFromBytes",
                        "createNDEFRecordMediaTextHTMLFromBytes"}
    THEN Return(StrVal(TextDecode(r.raw)))
    ELSE Return(BytesVal(r.raw))

SafePayload(success, value, error) == [success |-> success, payload |-> value, error |-> error]

\* a safePayload that lets the error of JSON.parse through
safePayloadUnguarded(r) ==
    IF payload(r).ok THEN Return(SafePayload(TRUE, payload(r).value, ""))
    ELSE Throw(payload(r).error)

\* record.safePayload(): the result object, or what it throws
safePayload(r) ==
    IF r.ctor = "createNDEFRecordMediaApplicationJsonFromBytes"
    THEN LET parsedPayload == JSONparse(TextDecode(r.raw))
         IN  IF parsedPayload.ok
             THEN Return(SafePayload(TRUE, JsonVal(parsedPayload.value), ""))
             ELSE Return(SafePayload(FALSE, UndefinedVal, parsedPayload.error.message))
    ELSE Return(SafePayload(TRUE, payload(r).value, ""))

\* record.rawPayload()
rawPayload(r) ==
    IF r.ctor = "createNDEFRecordWellKnownURI" THEN <<r.prefix>> \o TextEncode(r.suffix)
    ELSE IF r.ctor = "createNDEFRecordMediaApplicationJson" THEN TextEncode(JSONstringify(r.value.j))
    ELSE IF r.ctor \in {"createNDEFRecordMediaTextPlain", "createNDEFRecordMediaTextHTML"}
    THEN TextEncode(r.value.s)
    ELSE IF r.ctor \in FactoryCtors THEN r.value.s  \* binaryLikeToUint8Array of a Uint8Array
    ELSE r.raw

\* record.rawType()
rawType(r) == TextEncode(r.type)

\* record.rawId(): <<>> for undefined, <<bytes>> otherwise
rawId(r) ==
    IF r.ctor \in FactoryCtors
    THEN (IF r.id = NoId THEN <<>> ELSE <<TextEncode(r.id[1])>>)
    ELSE (IF r.id # NoId /\ r.id[1] # <<>> THEN <<TextEncode(r.id[1])>> ELSE <<>>)

---------------------------------------------------------------------------
(* src/parse/index.ts: records *)

\* (headerByte & mask) !== 0 for the one-bit mask 2^k
BitSet(headerByte, k) == (ToInt32(headerByte) \div (2 ^ k)) % 2 = 1

\* a header parser that minds the chunk flag in a short record only
parseNDEFRecordHeaderChunkInShortOnly(headerByte) ==
    IF BitSet(headerByte, 5) /\ BitSet(headerByte, 4)
    THEN Throw(Error("Chunked records are not supported yet", <<>>))
    ELSE Return([messageBeginFlag |-> BitSet(headerByte, 7),
                 messageEndFlag   |-> BitSet(headerByte, 6),
                 chunkFlag        |-> FALSE,
                 shortRecordFlag  |-> BitSet(headerByte, 4),
                 idLengthFlag     |-> BitSet(headerByte, 3),
                 tnf              |-> TNFCodeLookup(ToInt32(headerByte) % 8)])

\* a header parser that wants the MB flag
parseNDEFRecordHeaderWantsBegin(headerByte) ==
    IF BitSet(headerByte, 5)
    THEN Throw(Error("Chunked records are not supported yet", <<>>))
    ELSE IF ~BitSet(headerByte, 7)
    THEN Throw(Error("No record with message begin flag found. At least one record must have the message begin flag.", <<>>))
    ELSE Return([messageBeginFlag |-> BitSet(headerByte, 7),
                 messageEndFlag   |-> BitSet(headerByte, 6),
                 chunkFlag        |-> FALSE,
                 shortRecordFlag  |-> BitSet(headerByte, 4),
                 idLengthFlag     |-> BitSet(headerByte, 3),
                 tnf              |-> TNFCodeLookup(ToInt32(headerByte) % 8)])

parseNDEFRecordHeader(headerByte) ==
    IF BitSet(headerByte, 5)
    THEN Throw(Error("Chunked records are not supported yet", <<>>))
    ELSE Return([messageBeginFlag |-> BitSet(headerByte, 7),
                 messageEndFlag   |-> BitSet(headerByte, 6),
                 chunkFlag        |-> FALSE,
                 shortRecordFlag  |-> BitSet(headerByte, 4),
                 idLengthFlag     |-> BitSet(headerByte, 3),
                 tnf              |-> TNFCodeLookup(ToInt32(headerByte) % 8)])

createWellKnownRecord(type, raw, id) ==
    IF type = TypeU THEN createNDEFRecordWellKnownURIFromBytes(raw, id)
    ELSE Return(createUnidentifiedRecord("well-known", type, raw, id))

\* a lookup that takes every media type it does not know for text
createMediaRecordTextFallback(type, raw, id) ==
    IF type = TypeApplicationJson THEN createNDEFRecordMediaApplicationJsonFromBytes(raw, id)
    ELSE IF type = TypeTextHtml THEN createNDEFRecordMediaTextHTMLFromBytes(raw, id)
    ELSE IF type = TypeImagePng THEN createNDEFRecordMediaImagePNGFromBytes(raw, id)
    ELSE IF type = TypeImageJpeg THEN createNDEFRecordMediaImageJPEGFromBytes(raw, id)
    ELSE IF type = TypeVideoMp4 THEN createNDEFRecordMediaVideoMP4FromBytes(raw, id)
    ELSE IF type = TypeAudioMpeg THEN createNDEFRecordMediaAudioMPEGFromBytes(raw, id)
    ELSE MediaFromBytes("createNDEFRecordMediaTextPlainFromBytes", type, raw, id)

createMediaRecord(type, raw, id) ==
    IF type = TypeApplicationJson THEN createNDEFRecordMediaApplicationJsonFromBytes(raw, id)
    ELSE IF type = TypeTextPlain THEN createNDEFRecordMediaTextPlainFromBytes(raw, id)
    ELSE IF type = TypeTextHtml THEN createNDEFRecordMediaTextHTMLFromBytes(raw, id)
    ELSE IF type = TypeImagePng THEN createNDEFRecordMediaImagePNGFromBytes(raw, id)
    ELSE IF type = TypeImageJpeg THEN createNDEFRecordMediaImageJPEGFromBytes(raw, id)
    ELSE IF type = TypeVideoMp4 THEN createNDEFRecordMediaVideoMP4FromBytes(raw, id)
    ELSE IF type = TypeAudioMpeg THEN createNDEFRecordMediaAudioMPEGFromBytes(raw, id)
    ELSE createUnidentifiedRecord("media", type, raw, id)

\* rawId is <<>> (undefined) or <<bytes>>; the result is the record or what was thrown
createNDEFRecordFromRawData(tnf, rawTypeBytes, rawPayloadBytes, rawIdBytes) ==
    LET typeString == TextDecode(rawTypeBytes)
        id == IF rawIdBytes # <<>> THEN SomeId(TextDecode(rawIdBytes[1])) ELSE NoId
    IN  IF tnf = "well-known" THEN createWellKnownRecord(typeString, rawPayloadBytes, id)
        ELSE IF tnf = "media" THEN Return(createMediaRecord(typeString, rawPayloadBytes, id))
        ELSE Return(createUnidentifiedRecord(tnf, typeString, rawPayloadBytes, id))

UnexpectedEnd(field) == Error("Unexpected end of data while " \o field, <<>>)

\* (b0 << 24) | (b1 << 16) | (b2 << 8) | b3 as the signed 32-bit number JavaScript computes
Int32FromBytes(b0, b1, b2, b3) ==
    (IF ToInt32(b0) >= 128 THEN ToInt32(b0) - 256 ELSE ToInt32(b0)) * 16777216
        + ToInt32(b1) * 65536 + ToInt32(b2) * 256 + ToInt32(b3)

\* a record result that never reports the end of the message
ParsedNDEFRecordResultNoEnd(record, nextOffset, isMessageEnd) ==
    [record |-> record, nextOffset |-> nextOffset, isMessageEnd |-> FALSE]

ParsedNDEFRecordResult(record, nextOffset, isMessageEnd) ==
    [record |-> record, nextOffset |-> nextOffset, isMessageEnd |-> isMessageEnd]

\* the return statement of parseNDEFRecord, reached when the record was built
ParsedRecord(record, nextOffset, isMessageEnd) ==
    IF ~record.ok THEN Throw(record.error)
    ELSE Return(ParsedNDEFRecordResult(record.value, nextOffset, isMessageEnd))

\* parseNDEFRecord from the PAYLOAD field on: o is the offset of the payload
ParsePayloadField(d, header, typeBytes, idBytes, payloadLength, o) ==
    IF PlusInt32Exceeds(o, payloadLength, Len(d)) THEN Throw(UnexpectedEnd("reading PAYLOAD"))
    ELSE ParsedRecord(createNDEFRecordFromRawData(header.tnf, typeBytes,
                                                  Slice(d, o, PlusInt32(o, payloadLength)),
                                                  idBytes),
                      PlusInt32(o, payloadLength), header.messageEndFlag)

\* parseNDEFRecord from the TYPE field on: o is the offset of the type
ParseTypeAndIdFields(d, header, typeLength, payloadLength, idLength, o) ==
    IF PlusExceeds(o, typeLength, Len(d)) THEN Throw(UnexpectedEnd("reading TYPE"))
    ELSE IF header.idLengthFlag /\ PlusExceeds(Plus(o, typeLength), idLength, Len(d))
    THEN Throw(UnexpectedEnd("reading ID"))
    ELSE ParsePayloadField(d, header, Slice(d, o, Plus(o, typeLength)),
                           IF header.idLengthFlag
                           THEN <<Slice(d, Plus(o, typeLength),
                                        Plus(Plus(o, typeLength), idLength))>>
                           ELSE <<>>,
                           payloadLength,
                           IF header.idLengthFlag THEN Plus(Plus(o, typeLength), idLength)
                           ELSE Plus(o, typeLength))

\* parseNDEFRecord from the ID_LENGTH field on
ParseIdLengthField(d, header, typeLength, payloadLength, o) ==
    IF header.idLengthFlag /\ o >= Len(d) THEN Throw(UnexpectedEnd("reading ID_LENGTH"))
    ELSE ParseTypeAndIdFields(d, header, typeLength, payloadLength,
                              IF header.idLengthFlag THEN ToNumber(At(d, o)) ELSE 0,
                              IF header.idLengthFlag THEN o + 1 ELSE o)

\* parseNDEFRecord from the PAYLOAD_LENGTH field on
ParsePayloadLengthField(d, header, typeLength, o) ==
    IF header.shortRecordFlag /\ o >= Len(d)
    THEN Throw(UnexpectedEnd("reading PAYLOAD_LENGTH (short record)"))
    ELSE IF ~header.shortRecordFlag /\ o + 4 > Len(d)
    THEN Throw(UnexpectedEnd("reading PAYLOAD_LENGTH (long record)"))
    ELSE ParseIdLengthField(d, header, typeLength,
                            IF header.shortRecordFlag THEN At(d, o)
                            ELSE Int32FromBytes(At(d, o), At(d, o + 1), At(d, o + 2), At(d, o + 3)),
                            IF header.shortRecordFlag THEN o + 1 ELSE o + 4)

\* parseNDEFRecord after the header byte
ParseAfterHeader(d, header, o) ==
    IF ~header.ok THEN Throw(header.error)
    ELSE IF o + 1 >= Len(d) THEN Throw(UnexpectedEnd("reading TYPE_LENGTH"))
    ELSE ParsePayloadLengthField(d, header.value, ToNumber(At(d, o + 1)), o + 2)

parseNDEFRecord(d, o) ==
    IF o >= Len(d) THEN Throw(UnexpectedEnd("parsing NDEF record"))
    ELSE ParseAfterHeader(d, parseNDEFRecordHeader(At(d, o)), o)

---------------------------------------------------------------------------
(* src/bytes.ts: the encoder *)

RecordInfo(record, isBeginning, isEnd) ==
    [record |-> record, isBeginning |-> isBeginning, isEnd |-> isEnd]

B2N(b) == IF b THEN 1 ELSE 0

\* a header byte with the places of the short-record and the id-length flag exchanged
constructHeaderByteFlagsExchanged(info) ==
    B2N(info.isBeginning) * 128 + B2N(info.isEnd) * 64 + B2N(info.isChunked) * 32
        + B2N(info.isShortRecord) * 8 + B2N(info.isIdPresent) * 16 + (info.tnfCode % 8)

constructHeaderByte(info) ==
    B2N(info.isBeginning) * 128 + B2N(info.isEnd) * 64 + B2N(info.isChunked) * 32
        + B2N(info.isShortRecord) * 16 + B2N(info.isIdPresent) * 8 + (info.tnfCode % 8)

\* new TypeError(msg): an Error whose message is msg
TypeError(msg) == Error(msg, <<>>)

\* an encoder that still takes a payload of 256 bytes for a short record
constructBytesFromRecordInfoShortUpTo256(info) ==
    LET payloadBytes == rawPayload(info.record)
        typeBytes    == rawType(info.record)
        idOpt        == rawId(info.record)
        isShortRecord == Len(payloadBytes) <= 256
        isIdPresent   == idOpt # <<>>
        headerByte == constructHeaderByte([isBeginning |-> info.isBeginning, isEnd |-> info.isEnd,
                                           isChunked |-> FALSE, isShortRecord |-> isShortRecord,
                                           isIdPresent |-> isIdPresent,
                                           tnfCode |-> TNFLookup(info.record.tnf)])
        payloadLengthBytes ==
            IF isShortRecord THEN <<Len(payloadBytes) % 256>>
            ELSE <<(Len(payloadBytes) \div 16777216) % 256, (Len(payloadBytes) \div 65536) % 256,
                   (Len(payloadBytes) \div 256) % 256, Len(payloadBytes) % 256>>
        idLengthBytes == IF isIdPresent THEN <<Len(idOpt[1])>> ELSE <<>>
        idBytes == IF isIdPresent THEN idOpt[1] ELSE <<>>
    IN  IF Len(typeBytes) > 255
        THEN Throw(TypeError("Type length exceeds maximum allowed length of 255 bytes."))
        ELSE IF isIdPresent /\ Len(idOpt[1]) > 255
        THEN Throw(TypeError("ID length exceeds maximum allowed length of 255 bytes."))
        ELSE Return(<<headerByte, Len(typeBytes)>> \o payloadLengthBytes \o idLengthBytes
                    \o typeBytes \o idBytes \o payloadBytes)

\* an encoder that writes the id before the type
constructBytesFromRecordInfoIdFirst(info) ==
    LET payloadBytes == rawPayload(info.record)
        typeBytes    == rawType(info.record)
        idOpt        == rawId(info.record)
        isShortRecord == Len(payloadBytes) < 256
        isIdPresent   == idOpt # <<>>
        headerByte == constructHeaderByte([isBeginning |-> info.isBeginning, isEnd |-> info.isEnd,
                                           isChunked |-> FALSE, isShortRecord |-> isShortRecord,
                                           isIdPresent |-> isIdPresent,
                                           tnfCode |-> TNFLookup(info.record.tnf)])
        payloadLengthBytes ==
            IF isShortRecord THEN <<Len(payloadBytes)>>
            ELSE <<(Len(payloadBytes) \div 16777216) % 256, (Len(payloadBytes) \div 65536) % 256,
                   (Len(payloadBytes) \div 256) % 256, Len(payloadBytes) % 256>>
        idLengthBytes == IF isIdPresent THEN <<Len(idOpt[1])>> ELSE <<>>
        idBytes == IF isIdPresent THEN idOpt[1] ELSE <<>>
    IN  IF Len(typeBytes) > 255
        THEN Throw(TypeError("Type length exceeds maximum allowed length of 255 bytes."))
        ELSE IF isIdPresent /\ Len(idOpt[1]) > 255
        THEN Throw(TypeError("ID length exceeds maximum allowed length of 255 bytes."))
        ELSE Return(<<headerByte, Len(typeBytes)>> \o payloadLengthBytes \o idLengthBytes
                    \o idBytes \o typeBytes \o payloadBytes)

\* a record encoder that lets a type and an id of 256 bytes through
constructBytesFromRecordInfoUpTo256(info) ==
    LET payloadBytes == rawPayload(info.record)
        typeBytes    == rawType(info.record)
        idOpt        == rawId(info.record)
        isShortRecord == Len(payloadBytes) < 256
        isIdPresent   == idOpt # <<>>
        headerByte == constructHeaderByte([isBeginning |-> info.isBeginning, isEnd |-> info.isEnd,
                                           isChunked |-> FALSE, isShortRecord |-> isShortRecord,
                                           isIdPresent |-> isIdPresent,
                                           tnfCode |-> TNFLookup(info.record.tnf)])
        payloadLengthBytes ==
            IF isShortRecord THEN <<Len(payloadBytes)>>
            ELSE <<(Len(payloadBytes) \div 16777216) % 256, (Len(payloadBytes) \div 65536) % 256,
                   (Len(payloadBytes) \div 256) % 256, Len(payloadBytes) % 256>>
        idLengthBytes == IF isIdPresent THEN <<Len(idOpt[1])>> ELSE <<>>
        idBytes == IF isIdPresent THEN idOpt[1] ELSE <<>>
    IN  IF Len(typeBytes) > 256
        THEN Throw(TypeError("Type length exceeds maximum allowed length of 255 bytes."))
        ELSE IF isIdPresent /\ Len(idOpt[1]) > 256
        THEN Throw(TypeError("ID length exceeds maximum allowed length of 255 bytes."))
        ELSE Return(<<headerByte, Len(typeBytes)>> \o payloadLengthBytes \o idLengthBytes
                    \o typeBytes \o idBytes \o payloadBytes)

\* the bytes of one record, or the TypeError thrown
constructBytesFromRecordInfo(info) ==
    LET payloadBytes == rawPayload(info.record)
        typeBytes    == rawType(info.record)
        idOpt        == rawId(info.record)
        isShortRecord == Len(payloadBytes) < 256
        isIdPresent   == idOpt # <<>>
        headerByte == constructHeaderByte([isBeginning |-> info.isBeginning, isEnd |-> info.isEnd,
                                           isChunked |-> FALSE, isShortRecord |-> isShortRecord,
                                           isIdPresent |-> isIdPresent,
                                           tnfCode |-> TNFLookup(info.record.tnf)])
        payloadLengthBytes ==
            IF isShortRecord THEN <<Len(payloadBytes)>>
            ELSE <<(Len(payloadBytes) \div 16777216) % 256, (Len(payloadBytes) \div 65536) % 256,
                   (Len(payloadBytes) \div 256) % 256, Len(payloadBytes) % 256>>
        idLengthBytes == IF isIdPresent THEN <<Len(idOpt[1])>> ELSE <<>>
        idBytes == IF isIdPresent THEN idOpt[1] ELSE <<>>
    IN  IF Len(typeBytes) > 255
        THEN Throw(TypeError("Type length exceeds maximum allowed length of 255 bytes."))
        ELSE IF isIdPresent /\ Len(idOpt[1]) > 255
        THEN Throw(TypeError("ID length exceeds maximum allowed length of 255 bytes."))
        ELSE Return(<<headerByte, Len(typeBytes)>> \o payloadLengthBytes \o idLengthBytes
                    \o typeBytes \o idBytes \o payloadBytes)

\* the TLV around the record bytes; NDEFMessageLength is assigned only when the
\* length fits one byte, and spreading the unassigned variable throws
WrapTLV(result) ==
    IF Len(result) > 254
    THEN Throw(TypeError("NDEFMessageLength is not iterable"))
    ELSE Return(<<3, Len(result)>> \o result \o <<254>>)

\* a loop whose checks look at the end markers before the begin markers
RECURSIVE ConstructLoopEndFirst(_, _, _, _, _, _, _)
ConstructLoopEndFirst(infos, i, result, hasBeginning, hasEnd, hasMultipleBeginning, hasMultipleEnd) ==
    IF i > Len(infos)
    THEN IF hasMultipleEnd
         THEN Throw(Error("Multiple records with message end flag found. Only one record can have the message end flag.", <<>>))
         ELSE IF hasMultipleBeginning
         THEN Throw(Error("Multiple records with message begin flag found. Only one record can have the message begin flag.", <<>>))
         ELSE IF ~hasBeginning
         THEN Throw(Error("No record with message begin flag found. At least one record must have the message begin flag.", <<>>))
         ELSE IF ~hasEnd
         THEN Throw(Error("No record with message end flag found. At least one record must have the message end flag.", <<>>))
         ELSE WrapTLV(result)
    ELSE LET info == infos[i]
             recordBytes == constructBytesFromRecordInfo(info)
         IN  IF ~recordBytes.ok THEN Throw(recordBytes.error)
             ELSE ConstructLoopEndFirst(infos, i + 1, result \o recordBytes.value,
                                hasBeginning \/ info.isBeginning,
                                hasEnd \/ info.isEnd,
                                hasMultipleBeginning \/ (info.isBeginning /\ hasBeginning),
                                hasMultipleEnd \/ (info.isEnd /\ hasEnd))

\* the loop of constructBytes from info i on, then the marker checks and the TLV
RECURSIVE ConstructLoop(_, _, _, _, _, _, _)
ConstructLoop(infos, i, result, hasBeginning, hasEnd, hasMultipleBeginning, hasMultipleEnd) ==
    IF i > Len(infos)
    THEN IF hasMultipleBeginning
         THEN Throw(Error("Multiple records with message begin flag found. Only one record can have the message begin flag.", <<>>))
         ELSE IF hasMultipleEnd
         THEN Throw(Error("Multiple records with message end flag found. Only one record can have the message end flag.", <<>>))
         ELSE IF ~hasBeginning
         THEN Throw(Error("No record with message begin flag found. At least one record must have the message begin flag.", <<>>))
         ELSE IF ~hasEnd
         THEN Throw(Error("No record with message end flag found. At least one record must have the message end flag.", <<>>))
         ELSE WrapTLV(result)
    ELSE LET info == infos[i]
             recordBytes == constructBytesFromRecordInfo(info)
         IN  IF ~recordBytes.ok THEN Throw(recordBytes.error)
             ELSE ConstructLoop(infos, i + 1, result \o recordBytes.value,
                                hasBeginning \/ info.isBeginning,
                                hasEnd \/ info.isEnd,
                                hasMultipleBeginning \/ (info.isBeginning /\ hasBeginning),
                                hasMultipleEnd \/ (info.isEnd /\ hasEnd))

constructBytes(infos) ==
    IF Len(infos) = 0 THEN Return(<<>>)
    ELSE ConstructLoop(infos, 1, <<>>, FALSE, FALSE, FALSE, FALSE)

---------------------------------------------------------------------------
(* src/message.ts: NDEFMessage *)

\* an addHead that puts the record at the end
addHeadAtEnd(recs, header) == Append(recs, header)

addHead(recs, header) == <<header>> \o recs
addTail(recs, tail) == Append(recs, tail)
add(recs, record) == addTail(recs, record)
removeHead(recs) == IF Len(recs) = 0 THEN recs ELSE Tail(recs)
removeTail(recs) == IF Len(recs) = 0 THEN recs ELSE SubSeq(recs, 1, Len(recs) - 1)
remove(recs) == removeTail(recs)

\* a toBytes that marks the first record as the end and the last as the beginning
toBytesMarkersSwapped(recs) ==
    constructBytes([index \in 1..Len(recs) |->
                       RecordInfo(recs[index], index = Len(recs), index = 1)])

toBytes(recs) ==
    constructBytes([index \in 1..Len(recs) |->
                       RecordInfo(recs[index], index = 1, index = Len(recs))])

---------------------------------------------------------------------------
(* The inputs the model explores *)

MaxRecords == 2     \* records in the arrays of the messages built with the factories
MaxMessages == 2    \* NDEFMessage instances a caller constructs
MaxRawLen == 4      \* bytes of an arbitrary buffer
MaxPrefix == 1      \* records before the last one of a generated record stream
MaxJsonLen == 2     \* characters of a generated application/json payload
MaxKeep == 9        \* bytes kept of a truncated record
MaxDecoded == 4     \* iterations of the decode loop that are followed
MaxPad == 2         \* zero bytes put before, and after, a buffer
MaxInfos == 2       \* record infos handed to constructBytes directly

\* a binary payload of n bytes
Fill(n) == [i \in 1..n |-> (i * 7) % 256]

\* a text of n letters 'a'
Letters(n) == [i \in 1..n |-> 97]

\* payload sizes around the limits of the one-byte TLV length (a 9-byte type and 3
\* header bytes precede the payload) and of the short record
BinarySizes == {242, 243, 256}

UriNfc == <<104, 116, 116, 112, 58, 47, 47, 119, 119, 119, 46, 110, 102, 99, 46, 99, 111, 109>>  \* 'http://www.nfc.com'
UriXY  == <<120, 58, 121>>  \* 'x:y'
IdA == <<97>>  \* 'a'

\* { "a": 1 }
JsonObjectA == JObj(<<IdA>>, <<JNum(1)>>)

FactoryRecords ==
    {createNDEFRecordWellKnownURI(UriNfc, NoId).value,
     createNDEFRecordWellKnownURI(UriXY, SomeId(<<>>)).value,
     createNDEFRecordMediaApplicationJson(JsonObjectA, SomeId(IdA)),
     createNDEFRecordMediaTextPlain(<<104, 105>>, NoId),
     createNDEFRecordMediaTextHTML(<<60, 98, 62>>, NoId)}
    \cup {createNDEFRecordMediaImagePNG(Fill(n), NoId) : n \in BinarySizes}
    \cup {createNDEFRecordMediaImageJPEG(Fill(1), SomeId(IdA)),
          createNDEFRecordMediaVideoMP4(Fill(0), NoId),
          createNDEFRecordMediaAudioMPEG(Fill(4), NoId)}
    \cup {createNDEFRecordMediaTextPlain(<<104, 105>>, SomeId(Letters(256))),
          createUnidentifiedRecord("unknown", Letters(256), <<1>>, NoId)}

\* URIs for the factory: with one prefix of the table, with several, with none, and
\* one that is no URI
UriInputs ==
    {UriNfc, UriXY,
     <<117, 114, 110, 58, 101, 112, 99, 58, 105, 100, 58, 120>>,  \* 'urn:epc:id:x'
     <<117, 114, 110, 58, 101, 112, 99, 58, 120>>,  \* 'urn:epc:x'
     <<117, 114, 110, 58, 110, 102, 99, 58, 120>>,  \* 'urn:nfc:x'
     <<117, 114, 110, 58, 120>>,  \* 'urn:x'
     <<104, 116, 116, 112, 115, 58, 47, 47, 119, 119, 119, 46, 97, 46, 98>>,  \* 'https://www.a.b'
     <<102, 116, 112, 58, 47, 47, 102, 116, 112, 46, 97>>,  \* 'ftp://ftp.a'
     <<102, 116, 112, 58, 47, 47, 97>>,  \* 'ftp://a'
     <<116, 101, 108, 58, 49>>,  \* 'tel:1'
     <<110, 102, 99>>}  \* 'nfc'
    \cup {prefixMappings[code + 1] \o <<120>> : code \in 1..35}  \* every prefix before 'x'

\* URI payloads with every first byte, alone and before 'x'
UriPayloads == {<<code>> : code \in 0..255} \cup {<<code, 120>> : code \in 0..255}

\* the records of the callers that share arrays, and the arrays they start from
SharedRecords == {createNDEFRecordWellKnownURI(UriNfc, NoId).value,
                  createNDEFRecordMediaTextPlain(<<104, 105>>, NoId)}
CallerArrays == {<<>>, <<createNDEFRecordMediaTextPlain(<<104, 105>>, NoId)>>}

RawAlphabet == {0, 1, 3, 254, 255}

SeqsUpTo(S, n) == UNION {[1..k -> S] : k \in 0..n}

\* the buffers of the parser's own tests that the alphabet does not give
TestBuffers == {<<3, 10, 1, 2, 3, 4, 5, 254>>, <<4, 5, 1, 2, 3, 4, 5, 254>>,
                <<3, 5, 1, 2, 3, 4, 5, 255>>, <<3, 255, 0, 5, 1, 2, 3, 4, 5, 6, 7, 254>>,
                <<3, 5, 1, 2, 3, 4, 5, 254>>, <<3, 255, 0, 1, 1, 254>>, <<3, 255, 0, 0, 254>>}

RawBuffers == SeqsUpTo(RawAlphabet, MaxRawLen) \cup TestBuffers

(* A record as it is laid out on the wire.  plen is the content of the     *)
(* PAYLOAD_LENGTH field when it is not the length of the payload, else <<>> *)
Wire(mb, me, cf, sr, il, tnf, type, id, pay, plen) ==
    [mb |-> mb, me |-> me, cf |-> cf, sr |-> sr, il |-> il, tnf |-> tnf,
     type |-> type, id |-> id, pay |-> pay, plen |-> plen]

WireHeader(w) ==
    B2N(w.mb) * 128 + B2N(w.me) * 64 + B2N(w.cf) * 32 + B2N(w.sr) * 16 + B2N(w.il) * 8 + w.tnf

WireBytes(w) ==
    <<WireHeader(w), Len(w.type)>>
    \o (IF w.plen # <<>> THEN w.plen
        ELSE IF w.sr THEN <<Len(w.pay)>>
        ELSE <<0, 0, Len(w.pay) \div 256, Len(w.pay) % 256>>)
    \o (IF w.il THEN <<Len(w.id)>> ELSE <<>>)
    \o w.type \o (IF w.il THEN w.id ELSE <<>>) \o w.pay

RECURSIVE WireStream(_)
WireStream(ws) == IF ws = <<>> THEN <<>> ELSE WireBytes(Head(ws)) \o WireStream(Tail(ws))

\* the TLV around a value: the one-byte length when it fits and is asked for
Envelope(value, long) ==
    (IF long \/ Len(value) > 254
     THEN <<3, 255, Len(value) \div 256, Len(value) % 256>>
     ELSE <<3, Len(value)>>) \o value \o <<254>>

WireTypes == {TypeU, TypeT, TypeApplicationJson, TypeTextPlain, TypeTextHtml, TypeImagePng,
              TypeImageJpeg, TypeVideoMp4, TypeAudioMpeg, TypeApplicationUnknown, <<>>,
              <<239, 187, 191>> \o TypeU}

\* every TNF code with every type
IdentWires == {Wire(TRUE, TRUE, FALSE, TRUE, FALSE, tnf, type, <<>>, <<1, 65>>, <<>>) :
                   tnf \in 0..7, type \in WireTypes}

\* records with an id field
IdWires == {Wire(TRUE, TRUE, FALSE, TRUE, TRUE, 2, type, id, <<66>>, <<>>) :
                type \in {TypeTextPlain, TypeApplicationUnknown}, id \in {<<>>, IdA}}

\* URI records with payloads the prefix table does and does not cover
UriWires == {Wire(TRUE, TRUE, FALSE, TRUE, FALSE, 1, TypeU, <<>>, pay, <<>>) :
                 pay \in {<<>>, <<36>>, <<0, 65>>, <<35, 66>>, <<255>>, <<4, 255>>}}

JsonAlphabet == {91, 93, 123, 125, 49, 44}  \* [ ] { } 1 ,
JsonTexts == SeqsUpTo(JsonAlphabet, MaxJsonLen)
             \cup {TextEncode(JSONstringify(JsonObjectA)),
                   <<123, 34, 105, 110, 118, 97, 108, 105, 100, 34, 58, 32, 106, 115, 111, 110, 125>>}  \* '{"invalid": json}'

JsonWires == {Wire(TRUE, TRUE, FALSE, TRUE, FALSE, 2, TypeApplicationJson, <<>>, pay, <<>>) :
                  pay \in JsonTexts}

\* long records, with PAYLOAD_LENGTH fields up to 2^32 - 1
LongLengths == {<<>>, <<255, 255, 255, 255>>, <<255, 255, 255, 250>>, <<255, 255, 255, 249>>,
                <<255, 255, 255, 240>>, <<127, 255, 255, 255>>, <<128, 0, 0, 0>>, <<0, 0, 0, 5>>}

LongWires == {Wire(TRUE, me, FALSE, FALSE, il, 0, <<>>, <<98>>, pay, plen) :
                  me \in BOOLEAN, il \in BOOLEAN, pay \in {<<>>, <<7, 8>>}, plen \in LongLengths}

\* records with the chunk flag, under every other flag
ChunkWires == {Wire(mb, me, TRUE, sr, il, tnf, TypeU, <<98>>, <<1, 65>>, <<>>) :
                   mb \in BOOLEAN, me \in BOOLEAN, sr \in BOOLEAN, il \in BOOLEAN,
                   tnf \in {0, 1, 7}}

\* records that need the three-byte TLV length
BigWires == {Wire(TRUE, TRUE, FALSE, FALSE, FALSE, 2, TypeImagePng, <<>>, Fill(300), <<>>),
             Wire(TRUE, TRUE, FALSE, TRUE, FALSE, 2, TypeApplicationUnknown, <<>>, Fill(255), <<>>)}

LastWires == IdentWires \cup IdWires \cup UriWires \cup JsonWires \cup LongWires
             \cup ChunkWires \cup BigWires

\* the records that precede the last one
PrefixWires == {Wire(TRUE, FALSE, FALSE, TRUE, FALSE, 2, TypeTextPlain, <<>>, <<97>>, <<>>),
                Wire(FALSE, TRUE, FALSE, TRUE, TRUE, 4, TypeT, <<98>>, <<>>, <<>>)}

\* the records that are cut short
TruncatedWires == {Wire(TRUE, TRUE, FALSE, sr, il, 2, TypeT, <<98>>, <<7>>, <<>>) :
                       sr \in BOOLEAN, il \in BOOLEAN}

Zeros(n) == [i \in 1..n |-> 0]

\* every HeaderBytesInfo the type admits
HeaderBytesInfos ==
    [isBeginning : BOOLEAN, isEnd : BOOLEAN, isChunked : {FALSE}, isShortRecord : BOOLEAN,
     isIdPresent : BOOLEAN, tnfCode : 0..7]

\* the calls of toBytes() that may be in flight together: a first and a second
Calls == {1, 2}

\* the lengths at which the caller of these calls adds a record to its message
AsyncLengths == {0, 1}

\* record infos with every combination of the two markers
MarkedInfos == {RecordInfo(r, isBeginning, isEnd) :
                    r \in SharedRecords, isBeginning \in BOOLEAN, isEnd \in BOOLEAN}

\* the buffers that are padded: one record in its TLV, and the parser's test buffers
PaddedCores == {Envelope(WireBytes(w), FALSE) :
                    w \in UriWires \cup IdWires
                          \cup {Wire(TRUE, TRUE, TRUE, TRUE, FALSE, 1, TypeU, <<>>, <<1, 65>>, <<>>)}}
               \cup TestBuffers

\* the wire record follows the format: no chunk flag, and lengths as declared
WellFormed(w) == ~w.cf /\ w.plen = <<>> /\ (w.sr => Len(w.pay) < 256)

---------------------------------------------------------------------------
(* The state machine: a caller builds a message and encodes it, or takes a  *)
(* buffer from a tag, and then decodes the buffer.                          *)

Pending     == [status |-> "pending", value |-> <<>>, error |-> Error("", <<>>)]
Returned(v) == [status |-> "returned", value |-> v, error |-> Error("", <<>>)]
Thrown(e)   == [status |-> "thrown", value |-> <<>>, error |-> e]
Outcome(r)  == IF r.ok THEN Returned(r.value) ELSE Thrown(r.error)

\* the result object of safeParseNDEFMessage; message and error are <<>> when undefined
SafePending == [status |-> "pending", success |-> FALSE, message |-> <<>>, error |-> <<>>]

\* a wrapper that hides what was thrown behind its fallback text
safeParseNDEFMessageUnknownError(outcome) ==
    IF outcome.status = "returned"
    THEN [status |-> "returned", success |-> TRUE, message |-> <<outcome.value>>, error |-> <<>>]
    ELSE [status |-> "returned", success |-> FALSE, message |-> <<>>,
          error |-> <<Error("Unknown error during NDEF message parsing", <<>>)>>]

safeParseNDEFMessage(outcome) ==
    IF outcome.status = "returned"
    THEN [status |-> "returned", success |-> TRUE, message |-> <<outcome.value>>, error |-> <<>>]
    ELSE [status |-> "returned", success |-> FALSE, message |-> <<>>, error |-> <<outcome.error>>]

\* parseNDEFMessage as a function of its buffer, to compare one call with another:
\* the record loop from the cursor off with recs decoded.  A loop that is still
\* running after MaxDecoded records is followed no further.
RECURSIVE RecordLoop(_, _, _)
RecordLoopStep(value, recs, recordResult) ==
    IF ~recordResult.ok THEN Thrown(recordResult.error)
    ELSE IF recordResult.value.isMessageEnd
            \/ ~(recordResult.value.nextOffset # NaN /\ recordResult.value.nextOffset < Len(value))
    THEN Returned(Append(recs, recordResult.value.record))
    ELSE RecordLoop(value, recordResult.value.nextOffset, Append(recs, recordResult.value.record))

RecordLoop(value, off, recs) ==
    IF Len(recs) >= MaxDecoded THEN Pending
    ELSE RecordLoopStep(value, recs, parseNDEFRecord(value, off))

ParseValidated(value) ==
    IF ~value.ok THEN Thrown(value.error)
    ELSE IF Len(value.value) = 0 THEN Returned(<<>>)
    ELSE RecordLoop(value.value, 0, <<>>)

ParseStripped(stripped) ==
    IF Len(stripped) = 0 THEN Returned(<<>>) ELSE ParseValidated(validateAndStripTLV(stripped))

parseNDEFMessage(d) == ParseStripped(stripLeadingTrailingZeros(d))

\* a direct call: the function, its argument, its outcome, and what rawPayload()
\* of the record it returned or was given is
NoCall == [fn |-> "none", input |-> <<>>, outcome |-> Pending, raw |-> <<>>]

\* no method was called on a message yet
NoRet == [op |-> "none", this |-> 0, arg |-> <<>>, result |-> 0, length |-> 0]

\* this.records of the message the last method was called on
records == IF ret.this = 0 THEN <<>> ELSE heap[msgs[ret.this]]

\* get length(): this.records.length
length(m) == Len(heap[msgs[m]])

\* the number of records in the first n arrays
RECURSIVE HeapSize(_)
HeapSize(n) == IF n = 0 THEN 0 ELSE Len(heap[n]) + HeapSize(n - 1)

\* the records a caller adds: every factory record when it has one message of its
\* own, two of them when there are more messages or an array of the caller
NewRecords == IF Len(msgs) = 1 /\ arr = 0 THEN FactoryRecords ELSE SharedRecords

Init ==
    /\ pc = "idle"
    /\ origin = "none"
    /\ heap = <<>>
    /\ msgs = <<>>
    /\ arr = 0
    /\ ret = NoRet
    /\ encoded = Pending
    /\ bytes = <<>>
    /\ sent = <<>>
    /\ call = NoCall
    /\ tlv = Pending
    /\ caller = "none"
    /\ data = <<>>
    /\ offset = 0
    /\ out = <<>>
    /\ parsed = Pending
    /\ safe = SafePending
    /\ reads = <<>>
    /\ tasks = <<>>

decodeVars == <<tlv, caller, data, offset, out, parsed, safe, reads>>

\* const arr = [...]: the caller makes an array of records
MakeArray(a) ==
    /\ pc = "idle" /\ heap = <<>> /\ msgs = <<>>
    /\ heap' = Append(heap, a)
    /\ arr' = Len(heap')
    /\ UNCHANGED <<tasks, pc, origin, msgs, ret, encoded, bytes, sent, call, decodeVars>>

\* the caller constructs its messages before it calls a method on one of them
CanConstruct == pc = "idle" /\ ret = NoRet /\ Len(msgs) < MaxMessages

\* new NDEFMessage(): this.records = records ?? [] makes a new array
New ==
    /\ CanConstruct
    /\ heap' = Append(heap, <<>>)
    /\ msgs' = Append(msgs, Len(heap'))
    /\ UNCHANGED <<tasks, pc, origin, arr, ret, encoded, bytes, sent, call, decodeVars>>

\* new NDEFMessage(arr): this.records = records ?? [] keeps the array it is given
NewFrom ==
    /\ CanConstruct /\ arr # 0
    /\ msgs' = Append(msgs, arr)
    /\ UNCHANGED <<tasks, pc, origin, heap, arr, ret, encoded, bytes, sent, call, decodeVars>>

\* arr.push(r): the caller changes its own array
Push(r) ==
    /\ pc = "idle" /\ arr # 0 /\ msgs # <<>>
    /\ HeapSize(Len(heap)) < MaxRecords
    /\ heap' = [heap EXCEPT ![arr] = Append(@, r)]
    /\ ret' = [op |-> "push", this |-> 0, arg |-> <<r>>, result |-> 0, length |-> Len(heap'[arr])]
    /\ UNCHANGED <<tasks, pc, origin, msgs, arr, encoded, bytes, sent, call, decodeVars>>

\* a method of message m that leaves recs in this.records, by unshift, push, shift
\* or pop on that array, and ends with `return this`; result.length is read after it
Method(m, op, arg, recs) ==
    /\ pc = "idle" /\ m \in 1..Len(msgs)
    /\ heap' = [heap EXCEPT ![msgs[m]] = recs]
    /\ ret' = [op |-> op, this |-> m, arg |-> arg, result |-> m, length |-> Len(heap'[msgs[m]])]
    /\ UNCHANGED <<tasks, pc, origin, msgs, arr, encoded, bytes, sent, call, decodeVars>>

Add(m, r) ==
    /\ r \in NewRecords /\ HeapSize(Len(heap)) < MaxRecords
    /\ Method(m, "add", <<r>>, add(heap[msgs[m]], r))

AddHead(m, r) ==
    /\ r \in NewRecords /\ HeapSize(Len(heap)) < MaxRecords
    /\ Method(m, "addHead", <<r>>, addHead(heap[msgs[m]], r))

RemoveHead(m) ==
    /\ m \in 1..Len(msgs)
    /\ Method(m, "removeHead", <<>>, removeHead(heap[msgs[m]]))

RemoveTail(m) ==
    /\ m \in 1..Len(msgs)
    /\ Method(m, "remove", <<>>, remove(heap[msgs[m]]))

\* await message.toBytes(); a rejection ends the caller.  Encoding is followed
\* for a caller that has one message.
ToBytes(m) ==
    /\ pc = "idle" /\ Len(msgs) = 1 /\ m \in 1..Len(msgs)
    /\ encoded' = Outcome(toBytes(heap[msgs[m]]))
    /\ ret' = [op |-> "toBytes", this |-> m, arg |-> <<>>, result |-> 0, length |-> length(m)]
    /\ origin' = "toBytes"
    /\ bytes' = encoded'.value
    /\ pc' = IF encoded'.status = "returned" THEN "ready" ELSE "done"
    /\ UNCHANGED <<tasks, heap, msgs, arr, sent, call, decodeVars>>

(* A call of toBytes() in flight.  this is the message, called is            *)
(* this.records as it was when toBytes was called, infos the array toBytes     *)
(* mapped from it; info, index, result and the four flags are the locals of    *)
(* constructBytes; awaiting is the promise the call is suspended on: of an     *)
(* accessor of info.record, "record" for constructBytesFromRecordInfo(info),   *)
(* "bytes" for constructBytes(infos), "none" when toBytes is over; settled is  *)
(* what the promise of an async function is settled with; log lists the        *)
(* accessors in the order they were called and resolved; overlaps is the set   *)
(* of the calls that were in flight when this one was made.                    *)

NewTask(m, recs, inFlight) ==
    [this |-> m, called |-> recs, overlaps |-> inFlight,
     infos |-> [index \in 1..Len(recs) |-> RecordInfo(recs[index], index = 1, index = Len(recs))],
     index |-> 0, info |-> <<>>, result |-> <<>>,
     hasBeginning |-> FALSE, hasEnd |-> FALSE,
     hasMultipleBeginning |-> FALSE, hasMultipleEnd |-> FALSE,
     awaiting |-> "none", settled |-> Return(<<>>), outcome |-> Pending, log |-> <<>>]

AccessorEvent(index, accessor, what) == [index |-> index, accessor |-> accessor, what |-> what]

\* the accessors in the order rawType, rawId, rawPayload
AccessorAfterTypeFirst(accessor) ==
    IF accessor = "" THEN "rawType" ELSE IF accessor = "rawType" THEN "rawId"
    ELSE IF accessor = "rawId" THEN "rawPayload" ELSE ""

\* the accessor constructBytesFromRecordInfo awaits after `accessor`; "" stands
\* for none, before the first and after the last
AccessorAfter(accessor) ==
    IF accessor = "" THEN "rawPayload" ELSE IF accessor = "rawPayload" THEN "rawType"
    ELSE IF accessor = "rawType" THEN "rawId" ELSE ""

\* infos that are mapped again from this.records whenever the loop looks at them
InfosOfRecordsNow(task, recs) ==
    [index \in 1..Len(recs) |-> RecordInfo(recs[index], index = 1, index = Len(recs))]

\* the array the loop of constructBytes iterates over; recs is this.records now
Infos(task, recs) == task.infos

\* constructBytes from the head of its loop for info i up to the next await: the
\* first accessor of the record is called, or the loop is over and the promise
\* of constructBytes is settled
EnterLoop(task, i) ==
    IF i > Len(Infos(task, heap[msgs[task.this]]))
    THEN [task EXCEPT !.awaiting = "bytes",
                      !.settled = IF i = 1 THEN Return(<<>>)
                                  ELSE ConstructLoop(<<>>, 1, task.result,
                                                     task.hasBeginning, task.hasEnd,
                                                     task.hasMultipleBeginning, task.hasMultipleEnd)]
    ELSE LET info == Infos(task, heap[msgs[task.this]])[i]
         IN  [task EXCEPT !.index = i, !.info = <<info>>,
                          !.hasBeginning = @ \/ info.isBeginning,
                          !.hasEnd = @ \/ info.isEnd,
                          !.hasMultipleBeginning = @ \/ (info.isBeginning /\ task.hasBeginning),
                          !.hasMultipleEnd = @ \/ (info.isEnd /\ task.hasEnd),
                          !.awaiting = AccessorAfter(""),
                          !.log = Append(@, AccessorEvent(i, AccessorAfter(""), "called"))]

\* the call after the promise it awaits is settled, up to its next await
Resumed(task) ==
    IF task.awaiting = "bytes"
    THEN [task EXCEPT !.awaiting = "none", !.outcome = Outcome(task.settled)]
    ELSE IF task.awaiting = "record"
    THEN IF ~task.settled.ok THEN [task EXCEPT !.awaiting = "bytes"]
         ELSE EnterLoop([task EXCEPT !.result = @ \o task.settled.value], task.index + 1)
    ELSE IF AccessorAfter(task.awaiting) = ""
    THEN [task EXCEPT !.awaiting = "record",
                      !.settled = constructBytesFromRecordInfo(task.info[1]),
                      !.log = Append(@, AccessorEvent(task.index, task.awaiting, "resolved"))]
    ELSE [task EXCEPT !.awaiting = AccessorAfter(task.awaiting),
                      !.log = @ \o <<AccessorEvent(task.index, task.awaiting, "resolved"),
                                     AccessorEvent(task.index, AccessorAfter(task.awaiting), "called")>>]

(* message.toBytes() without an await at once: the async functions toBytes,   *)
(* constructBytes and constructBytesFromRecordInfo run up to their next       *)
(* await, and what the caller does next runs before they are resumed.         *)

\* the calls of toBytes() that are suspended
InFlight == {t \in 1..Len(tasks) : tasks[t].awaiting # "none"}

\* toBytes up to the first await: the infos are mapped from this.records, and
\* constructBytes enters its loop
CallToBytes(m) ==
    /\ pc = "idle" /\ m \in 1..Len(msgs)
    /\ Len(tasks) + 1 \in Calls
    /\ tasks' = Append(tasks, EnterLoop(NewTask(m, heap[msgs[m]], InFlight), 1))
    /\ UNCHANGED <<pc, origin, heap, msgs, arr, ret, encoded, bytes, sent, call, decodeVars>>

\* the promise call t awaits is settled and the call runs up to its next await,
\* or to its end
Resume(t) ==
    /\ pc = "idle" /\ t \in 1..Len(tasks)
    /\ tasks[t].awaiting # "none"
    /\ tasks' = [tasks EXCEPT ![t] = Resumed(@)]
    /\ UNCHANGED <<pc, origin, heap, msgs, arr, ret, encoded, bytes, sent, call, decodeVars>>

Receive(kind, b, ws) ==
    /\ pc = "idle" /\ heap = <<>> /\ msgs = <<>>
    /\ origin' = kind
    /\ bytes' = b
    /\ sent' = ws
    /\ pc' = "ready"
    /\ UNCHANGED <<tasks, heap, msgs, arr, ret, encoded, call, decodeVars>>

\* createNDEFRecordWellKnownURI({ payload: URI }), and rawPayload() of the record
CreateURI ==
    \E URI \in UriInputs :
        /\ pc = "idle" /\ heap = <<>> /\ msgs = <<>>
        /\ \E result \in {createNDEFRecordWellKnownURI(URI, NoId)} :
               call' = [fn |-> "createNDEFRecordWellKnownURI", input |-> URI,
                        outcome |-> Outcome(result),
                        raw |-> IF result.ok THEN rawPayload(result.value) ELSE <<>>]
        /\ pc' = "called"
        /\ UNCHANGED <<tasks, origin, heap, msgs, arr, ret, encoded, bytes, sent, decodeVars>>

\* createNDEFRecordWellKnownURIFromBytes(rawPayload)
CreateURIFromBytes ==
    \E raw \in UriPayloads :
        /\ pc = "idle" /\ heap = <<>> /\ msgs = <<>>
        /\ call' = [fn |-> "createNDEFRecordWellKnownURIFromBytes", input |-> raw,
                    outcome |-> Outcome(createNDEFRecordWellKnownURIFromBytes(raw, NoId)),
                    raw |-> raw]
        /\ pc' = "called"
        /\ UNCHANGED <<tasks, origin, heap, msgs, arr, ret, encoded, bytes, sent, decodeVars>>

\* await constructBytesFromRecordInfo({ record, isBeginning, isEnd })
ConstructBytesFromRecordInfo ==
    \E r \in FactoryRecords, isBeginning \in BOOLEAN, isEnd \in BOOLEAN :
        /\ pc = "idle" /\ heap = <<>> /\ msgs = <<>>
        /\ call' = [fn |-> "constructBytesFromRecordInfo",
                    input |-> RecordInfo(r, isBeginning, isEnd),
                    outcome |-> Outcome(constructBytesFromRecordInfo(RecordInfo(r, isBeginning, isEnd))),
                    raw |-> rawPayload(r)]
        /\ pc' = "called"
        /\ UNCHANGED <<tasks, origin, heap, msgs, arr, ret, encoded, bytes, sent, decodeVars>>

\* constructHeaderByte(info), the Uint8Array it returns
ConstructHeaderByte ==
    \E info \in HeaderBytesInfos :
        /\ pc = "idle" /\ heap = <<>> /\ msgs = <<>>
        /\ call' = [fn |-> "constructHeaderByte", input |-> info,
                    outcome |-> Returned(<<constructHeaderByte(info)>>), raw |-> <<>>]
        /\ pc' = "called"
        /\ UNCHANGED <<tasks, origin, heap, msgs, arr, ret, encoded, bytes, sent, decodeVars>>

\* await constructBytes(infos), called with infos of the caller's own making
ConstructBytes ==
    \E infos \in SeqsUpTo(MarkedInfos, MaxInfos) :
        /\ pc = "idle" /\ heap = <<>> /\ msgs = <<>>
        /\ call' = [fn |-> "constructBytes", input |-> infos,
                    outcome |-> Outcome(constructBytes(infos)), raw |-> <<>>]
        /\ pc' = "called"
        /\ UNCHANGED <<tasks, origin, heap, msgs, arr, ret, encoded, bytes, sent, decodeVars>>

\* an arbitrary buffer
ReceiveRaw == \E b \in RawBuffers : Receive("raw", b, <<>>)

\* a TLV around a stream of records
ReceiveStream ==
    \E prefix \in SeqsUpTo(PrefixWires, MaxPrefix), last \in LastWires, long \in BOOLEAN :
        /\ long => prefix = <<>>
        /\ Receive("stream", Envelope(WireStream(prefix \o <<last>>), long), prefix \o <<last>>)

\* a TLV around a stream of records whose last record is cut short
ReceiveTruncated ==
    \E prefix \in SeqsUpTo(PrefixWires, MaxPrefix), last \in TruncatedWires, keep \in 0..MaxKeep :
        /\ keep < Len(WireBytes(last))
        /\ Receive("truncated",
                   Envelope(WireStream(prefix) \o Slice(WireBytes(last), 0, keep), FALSE),
                   prefix \o <<last>>)

\* a buffer between zero bytes, as a tag's memory gives it
ReceivePadded ==
    \E core \in PaddedCores, before \in 0..MaxPad, after \in 0..MaxPad :
        /\ before + after > 0
        /\ Receive("padded", Zeros(before) \o core \o Zeros(after), <<>>)

\* a direct call of validateAndStripTLV
ValidateTLV ==
    /\ pc = "ready"
    /\ tlv' = Outcome(validateAndStripTLV(bytes))
    /\ pc' = "done"
    /\ UNCHANGED <<tasks, origin, heap, msgs, arr, ret, encoded, bytes, sent, call, caller, data, offset, out, parsed, safe,
                   reads>>

\* parseNDEFMessage returns or throws; safeParseNDEFMessage turns that into its result
Finish(c, outcome) ==
    /\ parsed' = outcome
    /\ safe' = IF c = "safe" THEN safeParseNDEFMessage(outcome) ELSE safe
    /\ pc' = "done"

\* parseNDEFMessage up to the record loop
ParseBegin(c) ==
    /\ pc = "ready"
    /\ caller' = c
    /\ LET stripped == stripLeadingTrailingZeros(bytes)
           value == validateAndStripTLV(stripped)
       IN  IF Len(stripped) = 0
           THEN Finish(c, Returned(<<>>)) /\ UNCHANGED <<data, offset, out>>
           ELSE IF ~value.ok
           THEN Finish(c, Thrown(value.error)) /\ UNCHANGED <<data, offset, out>>
           ELSE IF Len(value.value) = 0
           THEN Finish(c, Returned(<<>>)) /\ UNCHANGED <<data, offset, out>>
           ELSE /\ data' = value.value
                /\ offset' = 0
                /\ out' = <<>>
                /\ pc' = "parsing"
                /\ UNCHANGED <<parsed, safe>>
    /\ UNCHANGED <<tasks, origin, heap, msgs, arr, ret, encoded, bytes, sent, call, tlv, reads>>

\* one iteration of the record loop, and the loop test that follows it
ParseRecord ==
    /\ pc = "parsing"
    /\ Len(out) < MaxDecoded
    /\ \E recordResult \in {parseNDEFRecord(data, offset)} :
           IF ~recordResult.ok
           THEN Finish(caller, Thrown(recordResult.error)) /\ UNCHANGED <<offset, out>>
           ELSE /\ out' = Append(out, recordResult.value.record)
                /\ offset' = recordResult.value.nextOffset
                /\ IF recordResult.value.isMessageEnd
                      \/ ~(offset' # NaN /\ offset' < Len(data))
                   THEN Finish(caller, Returned(out'))
                   ELSE pc' = "parsing" /\ UNCHANGED <<parsed, safe>>
    /\ UNCHANGED <<tasks, origin, heap, msgs, arr, ret, encoded, bytes, sent, call, tlv, caller, data, reads>>

\* the caller reads every record of the decoded message through its accessors
ReadPayloads ==
    /\ pc = "done"
    /\ parsed.status = "returned"
    /\ reads' = [i \in 1..Len(parsed.value) |->
                    [payload     |-> Outcome(payload(parsed.value[i])),
                     safePayload |-> Outcome(safePayload(parsed.value[i])),
                     rawPayload  |-> rawPayload(parsed.value[i])]]
    /\ pc' = "read"
    /\ UNCHANGED <<tasks, origin, heap, msgs, arr, ret, encoded, bytes, sent, call, tlv, caller, data, offset, out, parsed,
                   safe>>

Next ==
    \/ \E a \in CallerArrays : MakeArray(a)
    \/ New
    \/ NewFrom
    \/ \E r \in SharedRecords : Push(r)
    \/ \E m \in 1..MaxMessages, r \in FactoryRecords : Add(m, r)
    \/ \E m \in 1..MaxMessages, r \in FactoryRecords : AddHead(m, r)
    \/ \E m \in 1..MaxMessages : RemoveHead(m)
    \/ \E m \in 1..MaxMessages : RemoveTail(m)
    \/ \E m \in 1..MaxMessages : ToBytes(m)
    \/ CreateURI
    \/ CreateURIFromBytes
    \/ ConstructBytesFromRecordInfo
    \/ ConstructBytes
    \/ ConstructHeaderByte
    \/ ReceiveRaw
    \/ ReceiveStream
    \/ ReceiveTruncated
    \/ ReceivePadded
    \/ ValidateTLV
    \/ \E c \in {"parse", "safe"} : ParseBegin(c)
    \/ ParseRecord
    \/ ReadPayloads

Spec == Init /\ [][Next]_vars

\* A caller that has made one message, calls its methods and calls toBytes()
\* without awaiting it at once
AsyncInit ==
    /\ pc = "idle"
    /\ origin = "none"
    /\ heap = <<<<>>>>
    /\ msgs = <<1>>
    /\ arr = 0
    /\ ret = NoRet
    /\ encoded = Pending
    /\ bytes = <<>>
    /\ sent = <<>>
    /\ call = NoCall
    /\ tlv = Pending
    /\ caller = "none"
    /\ data = <<>>
    /\ offset = 0
    /\ out = <<>>
    /\ parsed = Pending
    /\ safe = SafePending
    /\ reads = <<>>
    /\ tasks = <<>>

AsyncNext ==
    \/ \E r \in SharedRecords : length(1) \in AsyncLengths /\ Add(1, r)
    \/ \E r \in SharedRecords : length(1) \in AsyncLengths /\ AddHead(1, r)
    \/ RemoveHead(1)
    \/ RemoveTail(1)
    \/ CallToBytes(1)
    \/ \E t \in Calls : Resume(t)

AsyncSpec == AsyncInit /\ [][AsyncNext]_vars


---------------------------------------------------------------------------
(* Properties of the TLV envelope *)

\* the header size and the declared length a buffer of at least 3 bytes announces
DeclaredHeaderSize(b) == IF b[2] = 255 THEN 4 ELSE 2
DeclaredLength(b) == IF b[2] = 255 THEN b[3] * 256 + b[4] ELSE b[2]

\* C3: every buffer that starts with 0x03, ends with 0xFE and is as long as its
\* header, its declared length and the terminator is accepted by
\* validateAndStripTLV, which returns the bytes between header and terminator,
\* for every declared length from 0 upward.
C3_WellFormedTLVAccepted ==
    (pc = "done" /\ tlv.status # "pending"
        /\ Len(bytes) >= 3 /\ bytes[1] = 3 /\ bytes[Len(bytes)] = 254
        /\ (bytes[2] = 255 => Len(bytes) >= 5)
        /\ Len(bytes) = DeclaredHeaderSize(bytes) + DeclaredLength(bytes) + 1)
    => tlv = Returned(SubSeq(bytes, DeclaredHeaderSize(bytes) + 1, Len(bytes) - 1))

\* C4: validateAndStripTLV rejects a malformed buffer with the error of the
\* first check that fails, the checks being in this order: fewer than 3 bytes,
\* first byte not 0x03, last byte not 0xFE, length byte 0xFF with fewer than 5
\* bytes, total length different from header size + declared length + 1; the
\* last error reports the expected and the actual total length (13 and 8 for
\* [03 0A 01 02 03 04 05 FE]).
C4_FirstFailingCheckReported ==
    (pc = "done" /\ tlv.status # "pending")
    => /\ IF Len(bytes) < 3
          THEN tlv = Thrown(TLVMalformed("not enough data"))
          ELSE IF bytes[1] # 3
          THEN tlv = Thrown(TLVMalformed("first byte is not 0x03"))
          ELSE IF bytes[Len(bytes)] # 254
          THEN tlv = Thrown(TLVMalformed("last byte is not 0xFE"))
          ELSE IF bytes[2] = 255 /\ Len(bytes) < 5
          THEN tlv = Thrown(TLVMalformed("long length format requires at least 5 bytes"))
          ELSE Len(bytes) # DeclaredHeaderSize(bytes) + DeclaredLength(bytes) + 1
               => /\ tlv.status = "thrown"
                  /\ tlv.error.message = "TLV structure is malformed: expected total length, got"
                  /\ tlv.error.args = <<DeclaredHeaderSize(bytes) + DeclaredLength(bytes) + 1,
                                        Len(bytes)>>
       /\ bytes = <<3, 10, 1, 2, 3, 4, 5, 254>> => tlv.error.args = <<13, 8>>

\* a length mismatch has been reported for the buffer of the parser's test
C4_Witness ==
    /\ pc = "done" /\ bytes = <<3, 10, 1, 2, 3, 4, 5, 254>>
    /\ tlv.status = "thrown" /\ tlv.error.args = <<13, 8>>

---------------------------------------------------------------------------
(* Properties of the decode loop *)

\* C5: every iteration of the record loop of parseNDEFMessage moves the cursor
\* strictly forward, so that the records decoded so far never outnumber the
\* bytes of the TLV value and the call returns or throws.
C5_CursorMovesForward ==
    [][(pc = "parsing" /\ pc' = "parsing") => (offset' > offset /\ Len(out') <= Len(data'))]_vars

\* the field of the record at offset o of d that the remaining bytes do not
\* cover, with the payload length read as the unsigned number of the format;
\* "" when every field is covered or the header carries the chunk flag
LackingField(d, o) ==
    LET remaining == Len(d) - o
        header == d[o + 1]
        sr == (header \div 16) % 2 = 1
        il == (header \div 8) % 2 = 1
        lengthSize == IF sr THEN 1 ELSE 4
        fixed == 2 + lengthSize + (IF il THEN 1 ELSE 0)
    IN  IF (header \div 32) % 2 = 1 THEN ""
        ELSE IF remaining < 2 THEN "reading TYPE_LENGTH"
        ELSE IF remaining < 2 + lengthSize
        THEN (IF sr THEN "reading PAYLOAD_LENGTH (short record)"
                    ELSE "reading PAYLOAD_LENGTH (long record)")
        ELSE IF remaining < fixed THEN "reading ID_LENGTH"
        ELSE LET typeLength == d[o + 2]
                 idLength == IF il THEN d[o + fixed] ELSE 0
                 \* a long payload length of 2^24 or more exceeds every buffer here
                 huge == ~sr /\ d[o + 3] # 0
                 payloadLength == IF sr THEN d[o + 3] ELSE d[o + 4] * 65536 + d[o + 5] * 256 + d[o + 6]
             IN  IF remaining < fixed + typeLength THEN "reading TYPE"
                 ELSE IF remaining < fixed + typeLength + idLength THEN "reading ID"
                 ELSE IF huge \/ remaining < fixed + typeLength + idLength + payloadLength
                 THEN "reading PAYLOAD"
                 ELSE ""

\* C6: when the bytes that remain in the TLV value do not cover a field of the
\* record being decoded, the decode fails with the 'Unexpected end of data'
\* error that names the field, for every declared payload length from 0 to
\* 2^32 - 1.
C6_TruncatedFieldReported ==
    [][(pc = "parsing" /\ offset >= 0 /\ offset < Len(data) /\ LackingField(data, offset) # "")
       => parsed' = Thrown(UnexpectedEnd(LackingField(data, offset)))]_vars

\* C7: safeParseNDEFMessage returns and does not throw; its result is
\* {success: true, message} exactly when parseNDEFMessage returned that message
\* and {success: false, message: undefined, error} with the message of the
\* thrown error exactly when parseNDEFMessage threw.
C7_SafeParseMirrorsParse ==
    (pc \in {"done", "read"} /\ caller = "safe")
    => /\ parsed.status \in {"returned", "thrown"}
       /\ safe.status = "returned"
       /\ safe.success <=> parsed.status = "returned"
       /\ parsed.status = "returned" => (safe.message = <<parsed.value>> /\ safe.error = <<>>)
       /\ parsed.status = "thrown" => (safe.message = <<>> /\ safe.error = <<parsed.error>>)

\* safeParseNDEFMessage has turned a thrown error into a failure result
C7_Witness ==
    /\ pc = "done" /\ caller = "safe" /\ parsed.status = "thrown"
    /\ ~safe.success /\ safe.error = <<parsed.error>>


---------------------------------------------------------------------------
(* Properties of the decoded records *)

\* the first i records of the stream follow the record format, so that the
\* i-th decoded record is the i-th record sent
Aligned(i) == i <= Len(sent) /\ \A j \in 1..i : WellFormed(sent[j])

\* the number of records of a stream up to its first message end flag
RECURSIVE RecordsToMessageEnd(_)
RecordsToMessageEnd(ws) ==
    IF ws = <<>> THEN 0
    ELSE IF Head(ws).me THEN 1
    ELSE 1 + RecordsToMessageEnd(Tail(ws))

\* C8: parseNDEFMessage fails on structural errors only: a message whose TLV
\* envelope, record headers and field lengths are well-formed is decoded and
\* all its records are returned, whatever the payload of a record holds.
C8_StructurallyWellFormedDecodes ==
    (pc \in {"done", "read"} /\ origin = "stream" /\ parsed.status # "pending"
        /\ \A i \in 1..Len(sent) : WellFormed(sent[i]))
    => /\ parsed.status = "returned"
       /\ Len(parsed.value) = RecordsToMessageEnd(sent)

\* the valid JSON texts of at most n characters over the generated alphabet:
\* a number of digits 1, {} or an array of such values
RECURSIVE JsonValuesUpTo(_), JsonElementsUpTo(_)
JsonValuesUpTo(n) ==
    IF n <= 0 THEN {}
    ELSE {[i \in 1..k |-> 49] : k \in 1..n}
         \cup (IF n < 2 THEN {}
               ELSE {<<123, 125>>, <<91, 93>>}
                    \cup {<<91>> \o l \o <<93>> : l \in JsonElementsUpTo(n - 2)})

JsonElementsUpTo(n) ==
    IF n <= 0 THEN {}
    ELSE JsonValuesUpTo(n)
         \cup {e \in {v \o <<44>> \o l : v \in JsonValuesUpTo(n - 2), l \in JsonElementsUpTo(n - 2)} :
                   Len(e) <= n}

ValidJsonText(text) ==
    \/ text \in JsonValuesUpTo(MaxJsonLen)
    \/ text = <<123, 34, 97, 34, 58, 49, 125>>  \* '{"a":1}'

IsJsonWire(w) == w.tnf = 2 /\ w.type = TypeApplicationJson

\* C9: an application/json record is decoded whether or not its payload is
\* valid JSON; when it is not, payload() throws and safePayload() returns
\* success=false with an error string; when it is, safePayload() returns
\* success=true with the value payload() returns.
C9_JsonErrorsDeferred ==
    /\ (pc \in {"done", "read"} /\ origin = "stream" /\ parsed.status # "pending"
           /\ \A i \in 1..Len(sent) : WellFormed(sent[i]) /\ IsJsonWire(sent[i]))
       => parsed.status = "returned"
    /\ (pc = "read" /\ origin = "stream")
       => \A i \in 1..Len(reads) :
              (Aligned(i) /\ IsJsonWire(sent[i]))
              => /\ reads[i].safePayload.status = "returned"
                 /\ IF ValidJsonText(sent[i].pay)
                    THEN /\ reads[i].payload.status = "returned"
                         /\ reads[i].safePayload.value.success
                         /\ reads[i].safePayload.value.payload = reads[i].payload.value
                    ELSE /\ reads[i].payload.status = "thrown"
                         /\ ~reads[i].safePayload.value.success
                         /\ reads[i].safePayload.value.error # ""

\* a record with the payload '[1' has been decoded and read
C9_Witness ==
    /\ pc = "read" /\ origin = "stream"
    /\ IsJsonWire(sent[1]) /\ sent[1].pay = <<91, 49>>
    /\ reads[1].payload.status = "thrown"
    /\ ~reads[1].safePayload.value.success

KnownTypePair(tnf, type) ==
    \/ tnf = "well-known" /\ type = TypeU
    \/ tnf = "media" /\ type \in {TypeApplicationJson, TypeTextPlain, TypeTextHtml, TypeImagePng,
                                  TypeImageJpeg, TypeVideoMp4, TypeAudioMpeg}

\* C10: a decoded record is identified exactly when its tnf and type are
\* well-known with 'U' or media with one of the seven known types; every other
\* record is unidentified and its payload() and rawPayload() are the payload
\* bytes of the wire.
C10_IdentifiedExactlyKnownTypes ==
    pc = "read"
    => \A i \in 1..Len(parsed.value) :
           LET r == parsed.value[i]
           IN  /\ r.isIdentified <=> KnownTypePair(r.tnf, r.type)
               /\ (origin = "stream" /\ Aligned(i)) => r.tnf = TNFNames[sent[i].tnf + 1]
               /\ ~KnownTypePair(r.tnf, r.type)
                  => /\ reads[i].payload = Returned(BytesVal(reads[i].rawPayload))
                     /\ (origin = "stream" /\ Aligned(i)) => reads[i].rawPayload = sent[i].pay

\* a media record of a type outside the known seven has been decoded and read
C10_Witness ==
    /\ pc = "read" /\ origin = "stream"
    /\ sent[1].tnf = 2 /\ sent[1].type = TypeApplicationUnknown /\ WellFormed(sent[1])
    /\ ~parsed.value[1].isIdentified
    /\ reads[1].payload = Returned(BytesVal(sent[1].pay))


---------------------------------------------------------------------------
(* Properties of the encoder *)

\* C1: decoding the bytes toBytes gives for a message built with the factories
\* returns as many records, in the same order, each with the tnf, type, id and
\* payload value of the original, whatever the size of the encoded message.
C1_RoundTrip ==
    (pc \in {"done", "read"} /\ origin = "toBytes"
        /\ (encoded.status = "thrown" \/ parsed.status # "pending"))
    => /\ encoded.status = "returned"
       /\ parsed.status = "returned"
       /\ Len(parsed.value) = Len(records)
       /\ \A i \in 1..Len(records) :
              /\ parsed.value[i].tnf = records[i].tnf
              /\ parsed.value[i].type = records[i].type
              /\ parsed.value[i].id = records[i].id
              /\ payload(parsed.value[i]) = payload(records[i])

\* the bytes of the records of a message, one after the other
RECURSIVE ConcatenatedRecordBytes(_, _)
ConcatenatedRecordBytes(recs, index) ==
    IF index > Len(recs) THEN <<>>
    ELSE constructBytesFromRecordInfo(RecordInfo(recs[index], index = 1, index = Len(recs))).value
         \o ConcatenatedRecordBytes(recs, index + 1)

\* C2: toBytes of a non-empty message gives 0x03, the length of the record
\* bytes, the record bytes and 0xFE; the length is one byte when the record
\* bytes are at most 254 long, and 0xFF with two big-endian bytes when longer.
C2_TLVLengthForm ==
    (origin = "toBytes" /\ encoded.status # "pending" /\ records # <<>>)
    => LET recordBytes == ConcatenatedRecordBytes(records, 1)
           total == Len(recordBytes)
       IN  encoded = Returned((IF total <= 254 THEN <<3, total>>
                               ELSE <<3, 255, total \div 256, total % 256>>)
                              \o recordBytes \o <<254>>)

---------------------------------------------------------------------------
(* Properties of the URI factory *)

\* the code of the longest entry of the prefix table the URI starts with; the
\* empty prefix of code 0 matches every URI
LongestPrefixCode(URI) ==
    CHOOSE c \in 0..(Len(prefixMappings) - 1) :
        /\ StartsWith(URI, prefixMappings[c + 1])
        /\ \A d \in 0..(Len(prefixMappings) - 1) :
               StartsWith(URI, prefixMappings[d + 1])
                   => Len(prefixMappings[d + 1]) <= Len(prefixMappings[c + 1])

\* C11: for every URI the factory accepts, the raw payload of the record is the
\* code of the longest prefix of the table the URI starts with (0x00 when there
\* is none), followed by the UTF-8 bytes of the URI without that prefix
C11_LongestPrefixCompression ==
    (call.fn = "createNDEFRecordWellKnownURI" /\ call.outcome.status = "returned")
        => call.raw = <<LongestPrefixCode(call.input)>>
                      \o TextEncode(SubSeq(call.input,
                                           Len(prefixMappings[LongestPrefixCode(call.input) + 1]) + 1,
                                           Len(call.input)))

---------------------------------------------------------------------------
(* Properties of the decoder as a whole *)

\* C12: zero bytes before and after a buffer do not change what parseNDEFMessage
\* gives: however the decoded buffer splits into zeros, a buffer b and zeros, the
\* outcome is the outcome of parseNDEFMessage(b)
C12_ZeroPaddingIgnored ==
    (pc \in {"done", "read"} /\ parsed.status # "pending")
        => \A before \in 0..Len(bytes), after \in 0..Len(bytes) :
               (/\ before + after <= Len(bytes)
                /\ \A k \in 1..before : bytes[k] = 0
                /\ \A k \in (Len(bytes) - after + 1)..Len(bytes) : bytes[k] = 0)
                   => parsed = parseNDEFMessage(SubSeq(bytes, before + 1, Len(bytes) - after))

\* a record in its TLV between zero bytes was decoded
C12_Witness ==
    /\ pc = "done" /\ origin = "padded"
    /\ bytes[1] = 0 /\ bytes[Len(bytes)] = 0
    /\ parsed.status = "returned" /\ Len(parsed.value) = 1

\* a TLV that declares a value of no bytes, in either length format
EmptyTLVs == {<<3, 0, 254>>, <<3, 255, 0, 0, 254>>}

\* C13: a TLV whose declared length is zero, an empty buffer and a buffer of
\* zeros only all decode, without an error, to a message of no records
C13_EmptyDecodesToNoRecords ==
    (/\ pc \in {"parsing", "done", "read"} /\ caller # "none"
     /\ (bytes \in EmptyTLVs \/ \A k \in 1..Len(bytes) : bytes[k] = 0))
        => /\ parsed = Returned(<<>>)
           /\ (caller = "safe" => safe = [status |-> "returned", success |-> TRUE,
                                          message |-> <<(<<>>)>>, error |-> <<>>])

\* the empty TLV in the three-byte length format was decoded
C13_Witness ==
    pc = "done" /\ bytes = <<3, 255, 0, 0, 254>> /\ parsed.status = "returned"

---------------------------------------------------------------------------
(* Properties of the record encoder *)

\* C14: the record encoder sets the SR flag and writes the payload length in one
\* byte exactly when the raw payload has fewer than 256 bytes; from 256 bytes on
\* SR is clear and the length takes four bytes, most significant first
C14_ShortRecordExactlyBelow256 ==
    (call.fn = "constructBytesFromRecordInfo" /\ call.outcome.status = "returned")
        => LET b == call.outcome.value
               n == Len(call.raw)
           IN  /\ BitSet(b[1], 4) <=> n < 256
               /\ n < 256 => b[3] = n
               /\ n >= 256 => b[3] * 16777216 + b[4] * 65536 + b[5] * 256 + b[6] = n

\* a record with a payload of 256 bytes was encoded
C14_Witness ==
    /\ call.fn = "constructBytesFromRecordInfo" /\ call.outcome.status = "returned"
    /\ Len(call.raw) = 256

\* C15: the bytes of a record are, in this order, the header byte, the type
\* length, the payload length (1 or 4 bytes), the id length (only with an id),
\* the type, the id and the payload; the URI record of http://www.nfc.com with
\* both flags is D1 01 08 55 01 6E 66 63 2E 63 6F 6D
C15_RecordLayout ==
    (call.fn = "constructBytesFromRecordInfo" /\ call.outcome.status = "returned")
        => LET b == call.outcome.value
               r == call.input.record
               n == Len(call.raw)
               id == rawId(r)
           IN  /\ Tail(b) = <<Len(rawType(r))>>
                             \o (IF n < 256 THEN <<n>> ELSE <<0, 0, n \div 256, n % 256>>)
                             \o (IF id # <<>> THEN <<Len(id[1])>> ELSE <<>>)
                             \o rawType(r)
                             \o (IF id # <<>> THEN id[1] ELSE <<>>)
                             \o call.raw
               /\ call.input = RecordInfo(createNDEFRecordWellKnownURI(UriNfc, NoId).value, TRUE, TRUE)
                      => b = <<209, 1, 8, 85, 1, 110, 102, 99, 46, 99, 111, 109>>

\* a record with an id of one byte was encoded
C15_Witness ==
    /\ call.fn = "constructBytesFromRecordInfo" /\ call.outcome.status = "returned"
    /\ rawId(call.input.record) = <<IdA>>
    /\ call.input.isBeginning /\ ~call.input.isEnd

---------------------------------------------------------------------------
(* Properties of a failing decode *)

\* the header byte under the cursor has bit 5, the chunk flag, set
ChunkFlagAt(d, o) == o \in 0..(Len(d) - 1) /\ (d[o + 1] \div 32) % 2 = 1

ChunkedError == Error("Chunked records are not supported yet", <<>>)

\* C16: whenever the header the record loop has reached has bit 5 set, whatever
\* its other bits are, the decode ends there with the error 'Chunked records are
\* not supported yet' and returns no message
C16_ChunkFlagRejected ==
    [][(pc = "parsing" /\ ChunkFlagAt(data, offset))
           => (pc' = "done" /\ parsed' = Thrown(ChunkedError))]_vars

\* a record was decoded, and the record after it had the chunk flag
C16_Witness ==
    pc = "done" /\ parsed = Thrown(ChunkedError) /\ Len(out) = 1 /\ offset > 0

\* C17: when the record the loop has reached has the chunk flag or lacks bytes
\* of a field, parseNDEFMessage throws and returns no message, however many
\* records were decoded before; safeParseNDEFMessage then returns success false
\* and no message
C17_InvalidRecordFailsDecode ==
    [][(/\ pc = "parsing" /\ offset \in 0..(Len(data) - 1)
        /\ (ChunkFlagAt(data, offset) \/ LackingField(data, offset) # ""))
           => (/\ pc' = "done" /\ parsed'.status = "thrown"
               /\ (caller = "safe" => (/\ safe'.status = "returned"
                                       /\ ~safe'.success /\ safe'.message = <<>>)))]_vars

---------------------------------------------------------------------------
(* Properties of NDEFMessage *)

\* the step is a call of one of the methods that change a message
MethodCalled == ret' # ret /\ ret'.op \in {"add", "addHead", "removeHead", "remove"}

\* C18: add(record) returns a new NDEFMessage, an instance other than the one it
\* was called on, whose records are the records the receiver had followed by
\* the new record
C18_AddReturnsNewInstance ==
    [][(ret' # ret /\ ret'.op = "add")
           => /\ ret'.result # ret'.this
              /\ ret'.result \in 1..Len(msgs')
              /\ heap'[msgs'[ret'.result]] = Append(heap[msgs[ret'.this]], ret'.arg[1])]_vars

\* C19: a message owns its array of records: no method called on a message
\* built with new NDEFMessage(arr) changes arr or the records of another
\* message, and a change of arr by the caller changes the records of no message
C19_MessageOwnsRecords ==
    [][/\ MethodCalled
           => /\ arr # 0 => heap'[arr] = heap[arr]
              /\ \A m \in 1..Len(msgs) :
                     m # ret'.this => heap'[msgs'[m]] = heap[msgs[m]]
       /\ (ret' # ret /\ ret'.op = "push")
           => \A m \in 1..Len(msgs) : heap'[msgs'[m]] = heap[msgs[m]]]_vars

---------------------------------------------------------------------------
(* Properties of the begin and end markers *)

\* the number of bytes the first n records of recs take in the encoding
RECURSIVE EncodedSize(_, _)
EncodedSize(recs, n) ==
    IF n = 0 THEN 0
    ELSE Len(constructBytesFromRecordInfo(RecordInfo(recs[n], FALSE, FALSE)).value)
         + EncodedSize(recs, n - 1)

\* the header byte of record i in the bytes toBytes returned: the TLV header
\* takes two bytes
EncodedHeader(i) == encoded.value[2 + EncodedSize(records, i - 1) + 1]

\* C21: whatever calls of add, addHead, remove and removeHead built the message,
\* when it is not empty the bytes of toBytes have the MB flag in the header of
\* the first record and in no other, and the ME flag in the header of the last
\* record and in no other
C21_OneBeginOneEnd ==
    (origin = "toBytes" /\ encoded.status = "returned" /\ records # <<>>)
        => \A i \in 1..Len(records) :
               /\ (EncodedHeader(i) \div 128) % 2 = 1 <=> i = 1
               /\ (EncodedHeader(i) \div 64) % 2 = 1 <=> i = Len(records)

\* a message of two different records was encoded
C21_Witness ==
    /\ origin = "toBytes" /\ encoded.status = "returned" /\ Len(records) = 2
    /\ records[1] # records[2]

---------------------------------------------------------------------------
(* Properties of the record loop *)

\* the header byte under the cursor has bit 6, the ME flag, set
MessageEndAt(d, o) == o \in 0..(Len(d) - 1) /\ (d[o + 1] \div 64) % 2 = 1

\* C22: the decoder stops after the first record whose ME flag is set, whatever
\* bytes follow it in the TLV value: they give no error and no record.  After
\* a record without ME it goes on with the next record as long as the cursor
\* is before the end of the TLV value, and returns when the cursor has reached it
C22_StopsAtMessageEnd ==
    [][(pc = "parsing" /\ Len(out') = Len(out) + 1)
           => /\ MessageEndAt(data, offset)
                     => (pc' = "done" /\ parsed' = Returned(out'))
              /\ (~MessageEndAt(data, offset) /\ offset' \in 0..(Len(data) - 1))
                     => (pc' = "parsing" /\ parsed' = Pending)
              /\ (~MessageEndAt(data, offset) /\ offset' >= Len(data))
                     => (pc' = "done" /\ parsed' = Returned(out'))]_vars

\* the first record of a stream had ME, a chunked record followed it, and the
\* decoder returned the first record alone
C22_Witness ==
    /\ pc = "done" /\ origin = "stream" /\ Len(sent) = 2
    /\ sent[1].me /\ sent[2].cf
    /\ parsed.status = "returned" /\ Len(parsed.value) = 1
    /\ offset < Len(data)

\* what parseNDEFMessage gives for the wire record alone in a message, with
\* both markers set
DecodedAlone(w) ==
    parseNDEFMessage(Envelope(WireBytes([w EXCEPT !.mb = TRUE, !.me = TRUE]), FALSE))

\* C23: the decoder does not look at the begin and end markers.  A stream of
\* well-formed records is decoded exactly when each of its records up to the
\* first ME flag is decoded when it stands alone with both markers, whether or
\* not the first record has MB, whether several records have MB, and whether
\* any record has ME
C23_MarkersNotValidated ==
    (/\ pc \in {"done", "read"} /\ origin = "stream" /\ parsed.status # "pending"
     /\ \A i \in 1..Len(sent) : WellFormed(sent[i]))
        => (parsed.status = "returned"
                <=> \A i \in 1..RecordsToMessageEnd(sent) :
                        DecodedAlone(sent[i]).status = "returned")

\* two records with MB and none with ME were decoded
C23_Witness ==
    /\ pc = "done" /\ origin = "stream" /\ Len(sent) = 2
    /\ sent[1].mb /\ sent[2].mb /\ ~sent[1].me /\ ~sent[2].me
    /\ parsed.status = "returned" /\ Len(parsed.value) = 2

---------------------------------------------------------------------------
(* Properties of constructBytes *)

MultipleBegin == Error("Multiple records with message begin flag found. Only one record can have the message begin flag.", <<>>)
MultipleEnd == Error("Multiple records with message end flag found. Only one record can have the message end flag.", <<>>)
NoBegin == Error("No record with message begin flag found. At least one record must have the message begin flag.", <<>>)
NoEnd == Error("No record with message end flag found. At least one record must have the message end flag.", <<>>)

\* C24: for a list of record infos that is not empty, constructBytes returns
\* bytes only when exactly one info has isBeginning and exactly one has isEnd;
\* otherwise it throws, reporting the first of: several begin markers, several
\* end markers, no begin marker, no end marker
C24_MarkersRevalidated ==
    (call.fn = "constructBytes" /\ call.input # <<>>)
        => LET begins == Cardinality({i \in 1..Len(call.input) : call.input[i].isBeginning})
               ends   == Cardinality({i \in 1..Len(call.input) : call.input[i].isEnd})
           IN  call.outcome =
                   IF begins > 1 THEN Thrown(MultipleBegin)
                   ELSE IF ends > 1 THEN Thrown(MultipleEnd)
                   ELSE IF begins = 0 THEN Thrown(NoBegin)
                   ELSE IF ends = 0 THEN Thrown(NoEnd)
                   ELSE Returned(call.outcome.value)

\* infos with two begin markers and two end markers were refused
C24_Witness ==
    /\ call.fn = "constructBytes" /\ Len(call.input) = 2
    /\ call.input[1].isBeginning /\ call.input[2].isBeginning
    /\ call.input[1].isEnd /\ call.input[2].isEnd
    /\ call.outcome.status = "thrown"

TypeTooLong == Error("Type length exceeds maximum allowed length of 255 bytes.", <<>>)
IdTooLong == Error("ID length exceeds maximum allowed length of 255 bytes.", <<>>)

\* the TypeError that the fields of a record ask for, <<>> when none
FieldError(r) ==
    IF Len(rawType(r)) > 255 THEN <<TypeTooLong>>
    ELSE IF rawId(r) # <<>> /\ Len(rawId(r)[1]) > 255 THEN <<IdTooLong>>
    ELSE <<>>

\* C25: encoding a record whose raw type or raw id is longer than 255 bytes
\* throws the TypeError that names the field, and toBytes of a message that
\* holds such a record at any position rejects with such an error and gives
\* no bytes
C25_LongFieldsRejected ==
    /\ (call.fn = "constructBytesFromRecordInfo" /\ FieldError(call.input.record) # <<>>)
           => call.outcome = Thrown(FieldError(call.input.record)[1])
    /\ (/\ origin = "toBytes" /\ encoded.status # "pending"
        /\ \E i \in 1..Len(records) : FieldError(records[i]) # <<>>)
           => /\ encoded.status = "thrown"
              /\ encoded.error \in {TypeTooLong, IdTooLong}
              /\ encoded.value = <<>> /\ bytes = <<>>

\* toBytes of a message whose last record has an id of 256 bytes was rejected
C25_Witness ==
    /\ origin = "toBytes" /\ Len(records) = 2
    /\ FieldError(records[1]) = <<>> /\ FieldError(records[2]) = <<IdTooLong>>
    /\ encoded = Thrown(IdTooLong)

\* bit k of a byte
HeaderBit(b, k) == (b \div (2 ^ k)) % 2 = 1

\* C27: constructHeaderByte returns one byte whose bit 7 is isBeginning, bit 6
\* isEnd, bit 5 clear, bit 4 isShortRecord, bit 3 isIdPresent and bits 2-0 the
\* TNF code, and parseNDEFRecordHeader reads the same four flags and the name
\* of that code back from it
C27_HeaderByteRoundTrip ==
    call.fn = "constructHeaderByte"
        => /\ call.outcome.status = "returned"
           /\ Len(call.outcome.value) = 1
           /\ LET b == call.outcome.value[1]
                  header == parseNDEFRecordHeader(b)
              IN  /\ b \in 0..255
                  /\ HeaderBit(b, 7) = call.input.isBeginning
                  /\ HeaderBit(b, 6) = call.input.isEnd
                  /\ ~HeaderBit(b, 5)
                  /\ HeaderBit(b, 4) = call.input.isShortRecord
                  /\ HeaderBit(b, 3) = call.input.isIdPresent
                  /\ b % 8 = call.input.tnfCode
                  /\ header.ok
                  /\ header.value.messageBeginFlag = call.input.isBeginning
                  /\ header.value.messageEndFlag = call.input.isEnd
                  /\ header.value.shortRecordFlag = call.input.isShortRecord
                  /\ header.value.idLengthFlag = call.input.isIdPresent
                  /\ header.value.tnf = TNFNames[call.input.tnfCode + 1]

\* the header of a long last record with an id and TNF 4 was built: 0b0100_1100
C27_Witness ==
    /\ call.fn = "constructHeaderByte" /\ call.outcome = Returned(<<76>>)
    /\ ~call.input.isBeginning /\ call.input.isEnd /\ ~call.input.isShortRecord
    /\ call.input.isIdPresent /\ call.input.tnfCode = 4

---------------------------------------------------------------------------
(* Properties of the URI prefix tables *)

---------------------------------------------------------------------------
(* Properties of the id of a decoded record *)

\* record i of the decoded message, encoded again with the markers it had
Reencoded(i) ==
    constructBytesFromRecordInfo(RecordInfo(parsed.value[i], sent[i].mb, sent[i].me))

\* the ID_LENGTH byte and the ID field in the bytes of one record: <<>> when the
\* IL flag is clear, else <<length byte, id bytes>>
IdFields(b) ==
    IF ~HeaderBit(b[1], 3) THEN <<>>
    ELSE LET idLengthAt == 2 + (IF HeaderBit(b[1], 4) THEN 1 ELSE 4) + 1
         IN  <<b[idLengthAt], SubSeq(b, idLengthAt + b[2] + 1, idLengthAt + b[2] + b[idLengthAt])>>

\* C30: rawId() of a decoded record returns the id bytes of the wire whenever
\* the IL flag was set, an id of length zero included, and undefined only when
\* the flag was clear; encoding the record again gives the IL flag, the
\* ID_LENGTH byte and the id bytes of the wire
C30_DecodedIdPreserved ==
    (/\ pc \in {"done", "read"} /\ origin = "stream" /\ parsed.status = "returned"
     /\ \A i \in 1..Len(sent) : WellFormed(sent[i]))
        => \A i \in 1..Len(parsed.value) :
               /\ rawId(parsed.value[i]) = (IF sent[i].il THEN <<sent[i].id>> ELSE <<>>)
               /\ Reencoded(i).ok
               /\ IdFields(Reencoded(i).value) = IdFields(WireBytes(sent[i]))
               /\ IdFields(WireBytes(sent[i]))
                      = (IF sent[i].il THEN <<Len(sent[i].id), sent[i].id>> ELSE <<>>)

\* the same for the ids that are not empty
C30_NonEmptyIdPreserved ==
    (/\ pc \in {"done", "read"} /\ origin = "stream" /\ parsed.status = "returned"
     /\ \A i \in 1..Len(sent) : WellFormed(sent[i]) /\ (sent[i].il => sent[i].id # <<>>))
        => \A i \in 1..Len(parsed.value) :
               /\ rawId(parsed.value[i]) = (IF sent[i].il THEN <<sent[i].id>> ELSE <<>>)
               /\ Reencoded(i).ok
               /\ IdFields(Reencoded(i).value) = IdFields(WireBytes(sent[i]))

---------------------------------------------------------------------------
(* Properties of toBytes() as an async function (AsyncSpec) *)

\* the accessors of the first n records, each called and resolved before the next
RECURSIVE AccessorsInSequence(_)
AccessorsInSequence(n) ==
    IF n = 0 THEN <<>>
    ELSE AccessorsInSequence(n - 1)
         \o <<AccessorEvent(n, "rawPayload", "called"), AccessorEvent(n, "rawPayload", "resolved"),
              AccessorEvent(n, "rawType", "called"), AccessorEvent(n, "rawType", "resolved"),
              AccessorEvent(n, "rawId", "called"), AccessorEvent(n, "rawId", "resolved")>>

\* the bytes of the first n of recs, one record after the other
RECURSIVE RecordsInOrder(_, _)
RecordsInOrder(recs, n) ==
    IF n = 0 THEN <<>>
    ELSE RecordsInOrder(recs, n - 1)
         \o constructBytesFromRecordInfo(RecordInfo(recs[n], n = 1, n = Len(recs))).value

\* C26: a call of toBytes invokes rawPayload, rawType, rawId of the first
\* record, then of the second, and so on, each invoked only after the one
\* before has resolved, and the bytes it returns hold the records in the
\* order of the message
C26_AccessorsSequential ==
    \A t \in 1..Len(tasks) :
        /\ Len(tasks[t].log) <= 6 * Len(tasks[t].called)
        /\ tasks[t].log = SubSeq(AccessorsInSequence(Len(tasks[t].called)), 1, Len(tasks[t].log))
        /\ tasks[t].outcome.status # "thrown"
        /\ (tasks[t].outcome.status = "returned" /\ tasks[t].called # <<>>)
               => /\ tasks[t].log = AccessorsInSequence(Len(tasks[t].called))
                  /\ tasks[t].outcome.value
                         = Envelope(RecordsInOrder(tasks[t].called, Len(tasks[t].called)), FALSE)

\* a call on a message of two different records has returned
C26_Witness ==
    /\ tasks # <<>> /\ tasks[1].outcome.status = "returned"
    /\ Len(tasks[1].called) = 2 /\ tasks[1].called[1] # tasks[1].called[2]
    /\ Len(tasks[1].log) = 12

\* C28 as it is stated: a call of toBytes returns the bytes of the records the
\* message had when it was called, and two calls that overlap return the same
\* bytes
C28_OverlappingCallsAgree ==
    \A t \in 1..Len(tasks) :
        tasks[t].awaiting = "none"
            => /\ tasks[t].outcome = Outcome(toBytes(tasks[t].called))
               /\ \A u \in tasks[t].overlaps :
                      tasks[u].awaiting = "none" => tasks[u].outcome = tasks[t].outcome

\* C28: a call of toBytes returns the bytes of the records the message had when
\* it was called, whatever methods ran on the message while the call was
\* suspended, and two calls that overlap return the same bytes when the
\* message had the same records at both calls
C28_EncodesRecordsAtCall ==
    \A t \in 1..Len(tasks) :
        tasks[t].awaiting = "none"
            => /\ tasks[t].outcome = Outcome(toBytes(tasks[t].called))
               /\ \A u \in tasks[t].overlaps :
                      (tasks[u].awaiting = "none" /\ tasks[u].called = tasks[t].called)
                          => tasks[u].outcome = tasks[t].outcome

\* the second call was made while the first was suspended, on a message that
\* had been changed since the first call, and both have returned
C28_Witness ==
    /\ Len(tasks) = 2 /\ tasks[2].overlaps = {1}
    /\ tasks[1].called # tasks[2].called
    /\ tasks[1].outcome.status = "returned" /\ tasks[2].outcome.status = "returned"
    /\ heap[msgs[1]] # tasks[2].called

====
